---- MODULE Spec2Model ----
(***************************************************************************)
(* create-project CLI: the `create` action (src/index.ts), the prompt      *)
(* collector (prompts/index.ts), the filesystem helpers                    *)
(* (utils/fileSystem.ts), the shell helpers (utils/shell.ts), the          *)
(* generation router (generators/index.ts) and the four project generators.*)
(*                                                                         *)
(* Text is modelled as follows: a project name is a sequence of one-       *)
(* character strings (so that the validation regex is applied character by *)
(* character); paths below the project root are sequences of path          *)
(* segments; every other piece of text is a TLA+ string.                   *)
(***************************************************************************)
EXTENDS Integers, Sequences, FiniteSets, TLC

(***************************************************************************)
(* Bounds of the model.                                                    *)
(***************************************************************************)
\* longest project name the user types or passes on the command line
MaxNameLen == 1

(***************************************************************************)
(* Small helpers.                                                          *)
(***************************************************************************)
Range(s) == {s[i] : i \in 1..Len(s)}

RECURSIVE ToStr(_)
\* the text of a character sequence
ToStr(s) == IF s = <<>> THEN "" ELSE s[1] \o ToStr(Tail(s))

\* cond ? seq : []
When(cond, s) == IF cond THEN s ELSE <<>>

(***************************************************************************)
(* types/index.ts                                                          *)
(***************************************************************************)
Framework == {"react", "astro", "next", "express"}
PackageManager == {"npm", "yarn", "pnpm"}
Database == {"mongodb", "postgresql", "none"}

\* an optional value that is absent (option records, ProjectConfig)
Undefined == [undefined |-> TRUE]

ReactOptions == [tailwind : BOOLEAN, reactRouter : BOOLEAN, zustand : BOOLEAN,
                 githubActions : BOOLEAN]
NextOptions == [tailwind : BOOLEAN, zustand : BOOLEAN, githubActions : BOOLEAN]
AstroOptions == [tailwind : BOOLEAN, githubActions : BOOLEAN]
ExpressOptions == [database : Database, authentication : BOOLEAN, swagger : BOOLEAN,
                   docker : BOOLEAN, githubActions : BOOLEAN]

(***************************************************************************)
(* prompts/index.ts: validateProjectName                                   *)
(***************************************************************************)
Lower == {"a", "b", "c", "d", "e", "f", "g", "h", "i", "j", "k", "l", "m",
          "n", "o", "p", "q", "r", "s", "t", "u", "v", "w", "x", "y", "z"}
Digit == {"0", "1", "2", "3", "4", "5", "6", "7", "8", "9"}
\* characters String.prototype.trim removes
WhiteSpace == {" ", "\t", "\n", "\r"}

\* [a-z0-9-*~]
ScopeFirst == Lower \cup Digit \cup {"-", "*", "~"}
\* [a-z0-9-*._~]
ScopeRest == Lower \cup Digit \cup {"-", "*", ".", "_", "~"}
\* [a-z0-9-~]
NameFirst == Lower \cup Digit \cup {"-", "~"}
\* [a-z0-9-._~]
NameRest == Lower \cup Digit \cup {"-", ".", "_", "~"}

\* [a-z0-9-~][a-z0-9-._~]*$ anchored at both ends
MatchBare(s) ==
    /\ Len(s) >= 1
    /\ s[1] \in NameFirst
    /\ \A i \in 2..Len(s) : s[i] \in NameRest

\* @[a-z0-9-*~][a-z0-9-*._~]*\/ followed by the bare part
MatchScoped(s) ==
    \E k \in 3..Len(s) :
        /\ s[1] = "@"
        /\ s[2] \in ScopeFirst
        /\ \A i \in 3..(k - 1) : s[i] \in ScopeRest
        /\ s[k] = "/"
        /\ MatchBare(SubSeq(s, k + 1, Len(s)))

validNameRegex(s) == MatchBare(s) \/ MatchScoped(s)

\* name.trim(): empty iff every character is white space
TrimIsEmpty(s) == \A i \in 1..Len(s) : s[i] \in WhiteSpace

\* "true" stands for the value true, any other result is the error message
validateProjectName(name) ==
    IF TrimIsEmpty(name) THEN "Il nome del progetto non puo essere vuoto"
    ELSE IF ~validNameRegex(name)
         THEN "Nome non valido. Usa solo lettere minuscole, numeri e trattini"
         ELSE "true"

(***************************************************************************)
(* Inputs: what the user passes on the command line and answers.           *)
(***************************************************************************)
\* characters the user types in a project name
NameChars == {"a", "A", "_", " "}

RECURSIVE SeqsUpTo(_, _)
SeqsUpTo(S, n) ==
    IF n = 0 THEN {<<>>}
    ELSE LET shorter == SeqsUpTo(S, n - 1)
         IN shorter \cup {Append(s, c) : s \in {t \in shorter : Len(t) = n - 1}, c \in S}

\* every name of the bounded alphabet, the empty one standing for "not given"
Names == SeqsUpTo(NameChars, MaxNameLen)

\* values of --framework: commander does not check them
FrameworkFlags == {"", "react", "astro", "next", "express", "vue"}
\* values of --directory ("" = not given)
DirectoryFlags == {"", "out"}
\* options.git / options.install
Tri == {"undefined", "true", "false"}

\* a ?? b, for a in Tri and b a boolean
Nullish(a, b) == IF a = "undefined" THEN b ELSE (a = "true")

(***************************************************************************)
(* utils/fileSystem.ts: the operations a generator issues, in order.       *)
(* A path is the sequence of its segments below path.resolve(directory).   *)
(***************************************************************************)
\* path.dirname
Dirname(p) == SubSeq(p, 1, Len(p) - 1)

\* an external module specifier: the package and the sub-path inside it
Pkg(name) == [pkg |-> name, sub |-> ""]
PkgSub(name, subpath) == [pkg |-> name, sub |-> subpath]

\* createDirectory(dirPath): one recursive mkdir
createDirectory(step, p) ==
    <<[kind |-> "mkdir", path |-> p, step |-> step, imports |-> {}, json |-> Undefined,
       siblings |-> {}, mounts |-> {}, commands |-> <<>>, lines |-> <<>>]>>

\* a relative module specifier './a/b.js' or '../a/b.js': its segments, the
\* last one without the '.js' suffix
Rel(segments) == segments

\* writeFile(filePath, content): mkdir of the parent, then the write.
\* The content is what the template puts into it: the packages it imports,
\* the sibling modules it imports by relative path, the routers it mounts
\* and the package-manager commands interpolated into its text.
writeFileWith(step, p, imports, siblings, mounts, commands) ==
    createDirectory(step, Dirname(p)) \o
    <<[kind |-> "write", path |-> p, step |-> step, imports |-> imports, json |-> Undefined,
       siblings |-> siblings, mounts |-> mounts, commands |-> commands, lines |-> <<>>]>>

\* writeFile of a content without relative imports, mounts or commands
writeFile(step, p, imports) == writeFileWith(step, p, imports, {}, {}, <<>>)

\* writeFile of a text made of entries, one per line: the patterns of a
\* .gitignore, the variables of a .env, the step names of a workflow, the
\* tree of a README's project-structure section
writeFileLines(step, p, commands, lines) ==
    LET ops == writeFileWith(step, p, {}, {}, {}, commands)
    IN  [ops EXCEPT ![Len(ops)].lines = lines]

\* JSON.stringify of a string: '"' and '\' are escaped, the text is quoted
RECURSIVE JsonEscape(_)
JsonEscape(s) ==
    IF s = <<>> THEN <<>>
    ELSE (IF Head(s) \in {"\"", "\\"} THEN <<"\\", Head(s)>> ELSE <<Head(s)>>)
         \o JsonEscape(Tail(s))

JsonQuote(s) == <<"\"">> \o JsonEscape(s) \o <<"\"">>

\* JSON.stringify(data, null, 2): the members of the object in order; the
\* project name, the one string built from input characters, is serialised
\* character by character
JSONStringifyUnquoted(data) == data

JSONStringify(data) ==
    IF "name" \in DOMAIN data THEN [data EXCEPT !.name = JsonQuote(data.name)] ELSE data

\* writeJsonFile(filePath, data): JSON.stringify, then writeFile
writeJsonFile(step, p, data) ==
    createDirectory(step, Dirname(p)) \o
    <<[kind |-> "write", path |-> p, step |-> step, imports |-> {},
       json |-> JSONStringify(data),
       siblings |-> {}, mounts |-> {}, commands |-> <<>>, lines |-> <<>>]>>

\* the object after the assignments of a guarded block
Assign(cond, obj, entries) == IF cond THEN entries @@ obj ELSE obj

(***************************************************************************)
(* generators/githubActionsGenerator.ts                                    *)
(***************************************************************************)
WorkflowDir == <<".github", "workflows">>

getPackageManagerCommands(pm) ==
    IF pm = "yarn" THEN [install |-> "yarn install --frozen-lockfile", run |-> "yarn"]
    ELSE IF pm = "pnpm" THEN [install |-> "pnpm install --frozen-lockfile", run |-> "pnpm"]
    ELSE [install |-> "npm ci", run |-> "npm run"]

\* the lines of a workflow that hold the package manager: the cache key, the
\* install command and the scripts it runs
WorkflowCommands(config, scripts) ==
    LET c == getPackageManagerCommands(config.packageManager)
    IN <<"cache: " \o config.packageManager, c.install>>
       \o [i \in 1..Len(scripts) |-> c.run \o " " \o scripts[i]]

generateReactWorkflow(step, config) ==
    createDirectory(step, WorkflowDir)
    \o writeFileWith(step, WorkflowDir \o <<"ci.yml">>, {}, {}, {},
                     WorkflowCommands(config, <<"lint", "build">>))

generateNextWorkflow(step, config) ==
    createDirectory(step, WorkflowDir)
    \o writeFileWith(step, WorkflowDir \o <<"ci.yml">>, {}, {}, {},
                     WorkflowCommands(config, <<"lint", "build">>))

generateAstroWorkflow(step, config) ==
    createDirectory(step, WorkflowDir)
    \o writeFileWith(step, WorkflowDir \o <<"ci.yml">>, {}, {}, {},
                     WorkflowCommands(config, <<"build">>))
    \o writeFileWith(step, WorkflowDir \o <<"deploy.yml">>, {}, {}, {},
                     WorkflowCommands(config, <<"build">>))

\* lines 229-250: the services block of the job, by database
ExpressWorkflowServices(database) ==
    IF database = "mongodb" THEN <<"services: mongodb">>
    ELSE IF database = "postgresql" THEN <<"services: postgres">>
    ELSE <<>>

\* lines 253-282: the names of the steps of the job, in the order of the text
ExpressWorkflowSteps(database) ==
    <<"Checkout repository", "Setup Node.js", "Install dependencies", "Lint", "Build">>
    \o (IF database = "postgresql" THEN <<"Generate Prisma Client">> ELSE <<>>)

generateExpressWorkflow(step, config, database) ==
    createDirectory(step, WorkflowDir)
    \o writeFileLines(step, WorkflowDir \o <<"ci.yml">>,
                      WorkflowCommands(config,
                         <<"lint", "build">>
                         \o (IF database = "postgresql" THEN <<"db:generate">> ELSE <<>>)),
                      ExpressWorkflowServices(database) \o ExpressWorkflowSteps(database))

(***************************************************************************)
(* templates/gitignore.ts and templates/readme.ts                          *)
(***************************************************************************)
\* the defaults of the destructured options of generateGitignore
GitignoreDefaults ==
    [buildDirs |-> <<"dist">>, dependencies |-> <<"node_modules">>,
     frameworkSpecific |-> <<>>, additionalEnvFiles |-> <<>>]

\* generateGitignore without its Environment section
generateGitignoreNoEnvironment(options) ==
    LET o == options @@ GitignoreDefaults
    IN  (IF o.dependencies # <<>> THEN <<"# Dependencies">> \o o.dependencies ELSE <<>>)
        \o (IF o.buildDirs # <<>> THEN <<"# Build">> \o o.buildDirs ELSE <<>>)
        \o <<"# Editor", ".vscode/*", "!.vscode/extensions.json", ".idea">>
        \o <<"# Logs", "*.log", "npm-debug.log*">>
        \o <<"# OS", ".DS_Store">>
        \o (IF o.frameworkSpecific # <<>>
            THEN <<"# Framework specific">> \o o.frameworkSpecific ELSE <<>>)

\* generateGitignore(options): the lines of the file, section by section
generateGitignore(options) ==
    LET o == options @@ GitignoreDefaults
    IN  (IF o.dependencies # <<>> THEN <<"# Dependencies">> \o o.dependencies ELSE <<>>)
        \o (IF o.buildDirs # <<>> THEN <<"# Build">> \o o.buildDirs ELSE <<>>)
        \o <<"# Environment", ".env", ".env.local", ".env.*.local">> \o o.additionalEnvFiles
        \o <<"# Editor", ".vscode/*", "!.vscode/extensions.json", ".idea">>
        \o <<"# Logs", "*.log", "npm-debug.log*">>
        \o <<"# OS", ".DS_Store">>
        \o (IF o.frameworkSpecific # <<>>
            THEN <<"# Framework specific">> \o o.frameworkSpecific ELSE <<>>)

gitignorePresets ==
    [react |-> generateGitignore([buildDirs |-> <<"dist", "dist-ssr">>,
                                  dependencies |-> <<"node_modules">>]),
     astro |-> generateGitignore([buildDirs |-> <<"dist/", ".astro/">>,
                                  dependencies |-> <<"node_modules/">>,
                                  additionalEnvFiles |-> <<".env.production">>]),
     next |-> generateGitignore([buildDirs |-> <<"/.next/", "/out/", "/build">>,
                                 dependencies |-> <<"node_modules", "/.pnp", ".pnp.*",
                                                    ".yarn/*">>,
                                 frameworkSpecific |-> <<"*.tsbuildinfo", "next-env.d.ts",
                                                         ".vercel">>,
                                 additionalEnvFiles |-> <<".env.development.local",
                                                          ".env.test.local",
                                                          ".env.production.local">>]),
     express |-> generateGitignore([buildDirs |-> <<"dist/", "build/">>,
                                    dependencies |-> <<"node_modules/">>,
                                    additionalEnvFiles |-> <<".env.development",
                                                             ".env.production",
                                                             ".env.test">>])]

\* projectStructureSections.express(opts): the entries of the tree, top down
projectStructureSectionsExpress(o) ==
    <<"src/", "config/", "controllers/",
      IF o.auth THEN "middlewares/ (incluso auth)" ELSE "middlewares/",
      "routes/", "services/">>
    \o (IF o.database THEN <<"models/">> ELSE <<>>)
    \o <<"types/", "utils/", "app.ts", "server.ts">>
    \o (IF o.database THEN <<"prisma/", "schema.prisma">> ELSE <<>>)

(***************************************************************************)
(* generators/reactGenerator.ts                                            *)
(***************************************************************************)
ReactDefaults == [tailwind |-> FALSE, reactRouter |-> FALSE, zustand |-> FALSE,
                  githubActions |-> FALSE]

ReactOpts(config) ==
    IF config.reactOptions = Undefined THEN ReactDefaults ELSE config.reactOptions

ReactCreateDirectoryStructure(opts) ==
    createDirectory("structure", <<"src", "components">>)
    \o createDirectory("structure", <<"src", "hooks">>)
    \o createDirectory("structure", <<"src", "utils">>)
    \o createDirectory("structure", <<"src", "types">>)
    \o createDirectory("structure", <<"public">>)
    \o When(opts.reactRouter, createDirectory("structure", <<"src", "pages">>))
    \o When(opts.zustand, createDirectory("structure", <<"src", "store">>))

\* ReactDependencies without the zustand entry
ReactDependenciesNoZustand(opts) ==
    Assign(opts.reactRouter,
        ("react" :> "^19.1.0") @@ ("react-dom" :> "^19.1.0"),
        ("react-router-dom" :> "^7.6.0"))

ReactDependencies(opts) ==
    Assign(opts.zustand,
        Assign(opts.reactRouter,
            ("react" :> "^19.1.0") @@ ("react-dom" :> "^19.1.0"),
            ("react-router-dom" :> "^7.6.0")),
        ("zustand" :> "^5.0.4"))

ReactDevDependencies(opts) ==
    Assign(opts.tailwind,
        ("@eslint/js" :> "^9.25.0") @@ ("@types/react" :> "^19.1.2")
        @@ ("@types/react-dom" :> "^19.1.2") @@ ("@vitejs/plugin-react" :> "^4.4.1")
        @@ ("eslint" :> "^9.25.0") @@ ("eslint-plugin-react-hooks" :> "^5.2.0")
        @@ ("eslint-plugin-react-refresh" :> "^0.4.19") @@ ("globals" :> "^16.0.0")
        @@ ("typescript" :> "~5.8.3") @@ ("typescript-eslint" :> "^8.30.1")
        @@ ("vite" :> "^6.3.5"),
        ("tailwindcss" :> "^4.1.6") @@ ("@tailwindcss/vite" :> "^4.1.6"))

ReactPackageJson(projectName, opts) ==
    [name |-> projectName,
     private |-> TRUE,
     version |-> "0.1.0",
     type |-> "module",
     scripts |-> ("dev" :> "vite") @@ ("build" :> "tsc -b && vite build")
                 @@ ("lint" :> "eslint .") @@ ("preview" :> "vite preview"),
     dependencies |-> ReactDependencies(opts),
     devDependencies |-> ReactDevDependencies(opts)]

ReactGeneratePackageJson(projectName, opts) ==
    writeJsonFile("manifest", <<"package.json">>, ReactPackageJson(projectName, opts))

ReactGenerateConfigFiles(opts) ==
    writeJsonFile("config", <<"tsconfig.json">>, [include |-> <<"src">>])
    \o writeFile("config", <<"vite.config.ts">>,
                 {Pkg("vite"), Pkg("@vitejs/plugin-react")}
                 \cup (IF opts.tailwind THEN {Pkg("@tailwindcss/vite")} ELSE {}))
    \o writeFileLines("config", <<".gitignore">>, <<>>, gitignorePresets.react)
    \o writeFile("config", <<"src", "vite-env.d.ts">>, {PkgSub("vite", "client")})

ReactGenerateZustandStore ==
    writeFile("source", <<"src", "store", "counterStore.ts">>, {Pkg("zustand")})

ReactGenerateReactRouterFiles(opts) ==
    writeFile("source", <<"src", "main.tsx">>,
              {Pkg("react"), PkgSub("react-dom", "client"), Pkg("react-router-dom")})
    \o writeFile("source", <<"src", "App.tsx">>, {Pkg("react-router-dom")})
    \o writeFile("source", <<"src", "components", "Layout.tsx">>, {Pkg("react-router-dom")})
    \o writeFile("source", <<"src", "pages", "Home.tsx">>, {})
    \o writeFile("source", <<"src", "pages", "About.tsx">>, {})

ReactGenerateBasicFiles(opts) ==
    writeFile("source", <<"src", "main.tsx">>, {Pkg("react"), PkgSub("react-dom", "client")})
    \o writeFile("source", <<"src", "App.tsx">>, {})

ReactGenerateStyles(useTailwind) ==
    writeFile("source", <<"src", "index.css">>,
              IF useTailwind THEN {Pkg("tailwindcss")} ELSE {})

ReactGenerateSourceFiles(config, opts) ==
    writeFile("source", <<"index.html">>, {})
    \o When(opts.zustand, ReactGenerateZustandStore)
    \o (IF opts.reactRouter THEN ReactGenerateReactRouterFiles(opts)
                            ELSE ReactGenerateBasicFiles(opts))
    \o ReactGenerateStyles(opts.tailwind)
    \o writeFile("source", <<"public", "vite.svg">>, {})
    \o When(opts.githubActions, generateReactWorkflow("source", config))

\* generateReadme that writes nothing
ReactGenerateReadmeSkipped(config) == <<>>

ReactGenerateReadme(config) ==
    writeFileWith("docs", <<"README.md">>, {}, {}, {}, <<config.packageManager>>)

\* the steps of generateReactProject, in the order of its awaits
generateReactProject(config) ==
    LET opts == ReactOpts(config)
    IN << ReactCreateDirectoryStructure(opts),
          ReactGeneratePackageJson(config.name, opts),
          ReactGenerateConfigFiles(opts),
          ReactGenerateSourceFiles(config, opts),
          ReactGenerateReadme(config) >>

(***************************************************************************)
(* generators/nextGenerator.ts                                             *)
(***************************************************************************)
NextDefaults == [tailwind |-> FALSE, zustand |-> FALSE, githubActions |-> FALSE]

NextOpts(config) ==
    IF config.nextOptions = Undefined THEN NextDefaults ELSE config.nextOptions

NextCreateDirectoryStructure(opts) ==
    createDirectory("structure", <<"src", "app">>)
    \o createDirectory("structure", <<"src", "components">>)
    \o createDirectory("structure", <<"src", "lib">>)
    \o createDirectory("structure", <<"src", "types">>)
    \o createDirectory("structure", <<"public">>)
    \o When(opts.zustand, createDirectory("structure", <<"src", "store">>))

NextDependencies(opts) ==
    Assign(opts.zustand,
        ("next" :> "^15.3.2") @@ ("react" :> "^19.1.0") @@ ("react-dom" :> "^19.1.0"),
        ("zustand" :> "^5.0.4"))

NextDevDependencies(opts) ==
    Assign(opts.tailwind,
        ("@types/node" :> "^22.15.21") @@ ("@types/react" :> "^19.1.2")
        @@ ("@types/react-dom" :> "^19.1.2") @@ ("typescript" :> "^5.8.3")
        @@ ("eslint" :> "^9.27.0") @@ ("eslint-config-next" :> "^15.3.2"),
        ("tailwindcss" :> "^4.1.6") @@ ("@tailwindcss/postcss" :> "^4.1.6"))

NextPackageJson(projectName, opts) ==
    [name |-> projectName,
     version |-> "0.1.0",
     private |-> TRUE,
     scripts |-> ("dev" :> "next dev") @@ ("build" :> "next build")
                 @@ ("start" :> "next start") @@ ("lint" :> "next lint"),
     dependencies |-> NextDependencies(opts),
     devDependencies |-> NextDevDependencies(opts)]

NextGeneratePackageJson(projectName, opts) ==
    writeJsonFile("manifest", <<"package.json">>, NextPackageJson(projectName, opts))

NextGenerateConfigFiles(opts) ==
    writeFile("config", <<"next.config.ts">>, {Pkg("next")})
    \o writeJsonFile("config", <<"tsconfig.json">>, [plugins |-> {Pkg("next")}])
    \o When(opts.tailwind,
            writeFile("config", <<"postcss.config.mjs">>, {Pkg("@tailwindcss/postcss")}))
    \o writeFile("config", <<"next-env.d.ts">>,
                 {Pkg("next"), PkgSub("next", "image-types/global")})
    \o writeFileLines("config", <<".gitignore">>, <<>>, gitignorePresets.next)

NextGenerateZustandStore ==
    writeFile("source", <<"src", "store", "counterStore.ts">>, {Pkg("zustand")})

\* '@/store/counterStore' in page.tsx is the tsconfig path alias of ./src, no package
NextGenerateAppFiles(opts) ==
    writeFile("source", <<"src", "app", "globals.css">>,
              IF opts.tailwind THEN {Pkg("tailwindcss")} ELSE {})
    \o writeFile("source", <<"src", "app", "layout.tsx">>, {Pkg("next")})
    \o writeFile("source", <<"src", "app", "page.tsx">>, {})
    \o When(~opts.tailwind, writeFile("source", <<"src", "app", "page.module.css">>, {}))

NextGenerateSourceFiles(config, opts) ==
    When(opts.zustand, NextGenerateZustandStore)
    \o NextGenerateAppFiles(opts)
    \o writeFile("source", <<"public", "favicon.svg">>, {})
    \o When(opts.githubActions, generateNextWorkflow("source", config))

NextGenerateReadme(config) ==
    writeFileWith("docs", <<"README.md">>, {}, {}, {}, <<config.packageManager>>)

\* generateNextProject with the README written before the source files
generateNextProjectReadmeFirst(config) ==
    LET opts == NextOpts(config)
    IN << NextCreateDirectoryStructure(opts),
          NextGeneratePackageJson(config.name, opts),
          NextGenerateConfigFiles(opts),
          NextGenerateReadme(config),
          NextGenerateSourceFiles(config, opts) >>

\* the steps of generateNextProject, in the order of its awaits
generateNextProject(config) ==
    LET opts == NextOpts(config)
    IN << NextCreateDirectoryStructure(opts),
          NextGeneratePackageJson(config.name, opts),
          NextGenerateConfigFiles(opts),
          NextGenerateSourceFiles(config, opts),
          NextGenerateReadme(config) >>

(***************************************************************************)
(* generators/astroGenerator.ts                                            *)
(***************************************************************************)
AstroDefaults == [tailwind |-> FALSE, githubActions |-> FALSE]

AstroOpts(config) ==
    IF config.astroOptions = Undefined THEN AstroDefaults ELSE config.astroOptions

AstroCreateDirectoryStructure ==
    createDirectory("structure", <<"src", "components">>)
    \o createDirectory("structure", <<"src", "layouts">>)
    \o createDirectory("structure", <<"src", "pages">>)
    \o createDirectory("structure", <<"src", "styles">>)
    \o createDirectory("structure", <<"public">>)

AstroDependencies(opts) ==
    Assign(opts.tailwind,
        ("astro" :> "^5.7.13"),
        ("@astrojs/tailwind" :> "^6.0.2") @@ ("tailwindcss" :> "^3.4.17"))

AstroDevDependencies(opts) ==
    ("@astrojs/check" :> "^0.9.4") @@ ("typescript" :> "^5.8.3")

AstroPackageJson(projectName, opts) ==
    [name |-> projectName,
     type |-> "module",
     version |-> "0.1.0",
     scripts |-> ("dev" :> "astro dev") @@ ("build" :> "astro build")
                 @@ ("preview" :> "astro preview") @@ ("astro" :> "astro"),
     dependencies |-> AstroDependencies(opts),
     devDependencies |-> AstroDevDependencies(opts)]

AstroGeneratePackageJson(projectName, opts) ==
    writeJsonFile("manifest", <<"package.json">>, AstroPackageJson(projectName, opts))

AstroGenerateConfigFiles(opts) ==
    writeFile("config", <<"astro.config.mjs">>,
              {PkgSub("astro", "config")}
              \cup (IF opts.tailwind THEN {Pkg("@astrojs/tailwind")} ELSE {}))
    \o When(opts.tailwind, writeFile("config", <<"tailwind.config.mjs">>, {Pkg("tailwindcss")}))
    \o writeJsonFile("config", <<"tsconfig.json">>,
                     [extends |-> {PkgSub("astro", "tsconfigs/strict")}])
    \o writeFileLines("config", <<".gitignore">>, <<>>, gitignorePresets.astro)

AstroGenerateSourceFiles(config, opts) ==
    writeFile("source", <<"src", "styles", "global.css">>, {})
    \o writeFile("source", <<"src", "layouts", "BaseLayout.astro">>, {})
    \o writeFile("source", <<"src", "components", "Header.astro">>, {})
    \o writeFile("source", <<"src", "components", "Footer.astro">>, {})
    \o writeFile("source", <<"src", "pages", "index.astro">>, {})
    \o writeFile("source", <<"src", "pages", "about.astro">>, {})
    \o writeFile("source", <<"public", "favicon.svg">>, {})
    \o When(opts.githubActions, generateAstroWorkflow("source", config))

AstroGenerateReadme(config) ==
    writeFileWith("docs", <<"README.md">>, {}, {}, {}, <<config.packageManager>>)

\* the steps of generateAstroProject, in the order of its awaits
generateAstroProject(config) ==
    LET opts == AstroOpts(config)
    IN << AstroCreateDirectoryStructure,
          AstroGeneratePackageJson(config.name, opts),
          AstroGenerateConfigFiles(opts),
          AstroGenerateSourceFiles(config, opts),
          AstroGenerateReadme(config) >>

(***************************************************************************)
(* generators/expressGenerator.ts                                          *)
(***************************************************************************)
ExpressDefaults == [database |-> "none", authentication |-> FALSE, swagger |-> FALSE,
                    docker |-> FALSE, githubActions |-> FALSE]

ExpressOpts(config) ==
    IF config.expressOptions = Undefined THEN ExpressDefaults ELSE config.expressOptions

ExpressCreateDirectoryStructure(opts) ==
    createDirectory("structure", <<"src", "controllers">>)
    \o createDirectory("structure", <<"src", "routes">>)
    \o createDirectory("structure", <<"src", "middlewares">>)
    \o createDirectory("structure", <<"src", "services">>)
    \o createDirectory("structure", <<"src", "utils">>)
    \o createDirectory("structure", <<"src", "types">>)
    \o createDirectory("structure", <<"src", "config">>)
    \o When(opts.database = "mongodb", createDirectory("structure", <<"src", "models">>))
    \o When(opts.database = "postgresql", createDirectory("structure", <<"prisma">>))

ExpressDependencies(opts) ==
    Assign(opts.swagger,
        Assign(opts.authentication,
            Assign(opts.database = "postgresql",
                Assign(opts.database = "mongodb",
                    ("express" :> "^5.1.0") @@ ("cors" :> "^2.8.5") @@ ("helmet" :> "^8.1.0")
                    @@ ("dotenv" :> "^16.5.0") @@ ("zod" :> "^3.24.4"),
                    ("mongoose" :> "^8.14.1")),
                ("@prisma/client" :> "^6.6.0")),
            ("bcrypt" :> "^5.1.1") @@ ("jsonwebtoken" :> "^9.0.2")),
        ("swagger-ui-express" :> "^5.0.1") @@ ("swagger-jsdoc" :> "^6.2.8"))

ExpressDevDependencies(opts) ==
    Assign(opts.swagger,
        Assign(opts.authentication,
            Assign(opts.database = "postgresql",
                ("@types/express" :> "^5.0.2") @@ ("@types/cors" :> "^2.8.18")
                @@ ("@types/node" :> "^22.15.21") @@ ("typescript" :> "^5.8.3")
                @@ ("tsx" :> "^4.19.4") @@ ("eslint" :> "^9.27.0")
                @@ ("@typescript-eslint/eslint-plugin" :> "^8.32.1")
                @@ ("@typescript-eslint/parser" :> "^8.32.1"),
                ("prisma" :> "^6.6.0")),
            ("@types/bcrypt" :> "^5.0.2") @@ ("@types/jsonwebtoken" :> "^9.0.9")),
        ("@types/swagger-ui-express" :> "^4.1.8") @@ ("@types/swagger-jsdoc" :> "^6.0.4"))

ExpressScripts(opts) ==
    Assign(opts.database = "postgresql",
        ("dev" :> "tsx watch src/server.ts") @@ ("build" :> "tsc")
        @@ ("start" :> "node dist/server.js") @@ ("lint" :> "eslint src/"),
        ("db:generate" :> "prisma generate") @@ ("db:push" :> "prisma db push")
        @@ ("db:migrate" :> "prisma migrate dev") @@ ("db:studio" :> "prisma studio"))

ExpressPackageJson(projectName, opts) ==
    [name |-> projectName,
     version |-> "0.1.0",
     type |-> "module",
     scripts |-> ExpressScripts(opts),
     dependencies |-> ExpressDependencies(opts),
     devDependencies |-> ExpressDevDependencies(opts)]

ExpressGeneratePackageJson(projectName, opts) ==
    writeJsonFile("manifest", <<"package.json">>, ExpressPackageJson(projectName, opts))

ExpressGenerateDockerCompose == writeFile("config", <<"docker-compose.yml">>, {})

ExpressGeneratePrismaSchema == writeFile("config", <<"prisma", "schema.prisma">>, {})

\* lines 170-196: the variables of .env.example and .env
ExpressEnvContent(opts) ==
    <<"PORT", "NODE_ENV">>
    \o (IF opts.database = "mongodb" THEN <<"MONGODB_URI">> ELSE <<>>)
    \o (IF opts.database = "postgresql" THEN <<"DATABASE_URL">> ELSE <<>>)
    \o (IF opts.authentication THEN <<"JWT_SECRET", "JWT_EXPIRES_IN">> ELSE <<>>)

ExpressGenerateConfigFiles(opts) ==
    writeJsonFile("config", <<"tsconfig.json">>, [include |-> <<"src/**/*">>])
    \o writeFileLines("config", <<".env.example">>, <<>>, ExpressEnvContent(opts))
    \o writeFileLines("config", <<".env">>, <<>>, ExpressEnvContent(opts))
    \o writeFileLines("config", <<".gitignore">>, <<>>, gitignorePresets.express)
    \o When(opts.docker, ExpressGenerateDockerCompose)
    \o When(opts.database = "postgresql", ExpressGeneratePrismaSchema)

ExpressGenerateDatabaseConfig(opts) ==
    writeFile("database", <<"src", "config", "index.ts">>, {Pkg("dotenv"), Pkg("zod")})
    \o When(opts.database = "mongodb",
            writeFileWith("database", <<"src", "config", "database.ts">>, {Pkg("mongoose")},
                          {Rel(<<".", "index">>)}, {}, <<>>))
    \o When(opts.database = "postgresql",
            writeFile("database", <<"src", "config", "database.ts">>, {Pkg("@prisma/client")}))

ExpressGenerateSwaggerConfig ==
    writeFile("source", <<"src", "config", "swagger.ts">>, {Pkg("swagger-jsdoc")})

ExpressGenerateTypes(withAuth) ==
    writeFile("source", <<"src", "types", "index.ts">>, {Pkg("express")})

ExpressGenerateMiddlewares(withAuth) ==
    writeFileWith("source", <<"src", "middlewares", "errorHandler.ts">>, {Pkg("express")},
                  {Rel(<<"..", "config", "index">>)}, {}, <<>>)
    \o writeFileWith("source", <<"src", "middlewares", "asyncHandler.ts">>, {Pkg("express")},
                     {Rel(<<"..", "types", "index">>)}, {}, <<>>)
    \o When(withAuth,
            writeFileWith("source", <<"src", "middlewares", "auth.ts">>,
                          {Pkg("express"), Pkg("jsonwebtoken")},
                          {Rel(<<"..", "config", "index">>), Rel(<<".", "errorHandler">>),
                           Rel(<<"..", "types", "index">>)}, {}, <<>>))

ExpressGenerateMongooseModels(withAuth) ==
    writeFile("source", <<"src", "models", "User.ts">>,
              {Pkg("mongoose")} \cup (IF withAuth THEN {Pkg("bcrypt")} ELSE {}))
    \o writeFileWith("source", <<"src", "models", "index.ts">>, {},
                     {Rel(<<".", "User">>)}, {}, <<>>)

ExpressGenerateAuthController(database) ==
    writeFileWith("source", <<"src", "controllers", "authController.ts">>,
        IF database = "mongodb"
        THEN {Pkg("express"), Pkg("jsonwebtoken")}
        ELSE {Pkg("express"), Pkg("jsonwebtoken"), Pkg("bcrypt")},
        {IF database = "mongodb" THEN Rel(<<"..", "models", "index">>)
                                 ELSE Rel(<<"..", "config", "database">>),
         Rel(<<"..", "config", "index">>),
         Rel(<<"..", "middlewares", "asyncHandler">>),
         Rel(<<"..", "middlewares", "errorHandler">>),
         Rel(<<"..", "types", "index">>)},
        {}, <<>>)

ExpressGenerateUserController(opts) ==
    writeFileWith("source", <<"src", "controllers", "userController.ts">>, {Pkg("express")},
        {IF opts.database = "mongodb" THEN Rel(<<"..", "models", "index">>)
                                      ELSE Rel(<<"..", "config", "database">>),
         Rel(<<"..", "middlewares", "asyncHandler">>),
         Rel(<<"..", "middlewares", "errorHandler">>)},
        {}, <<>>)

ExpressGenerateControllers(opts) ==
    writeFile("source", <<"src", "controllers", "healthController.ts">>, {Pkg("express")})
    \o When(opts.authentication, ExpressGenerateAuthController(opts.database))
    \o When(opts.database # "none", ExpressGenerateUserController(opts))

\* the import lines of src/routes/index.ts
RoutesIndexImports(opts) ==
    {Rel(<<".", "healthRoutes">>)}
    \cup (IF opts.authentication THEN {Rel(<<".", "authRoutes">>)} ELSE {})
    \cup (IF opts.database # "none" THEN {Rel(<<".", "userRoutes">>)} ELSE {})

\* RoutesIndexMounts with the users router mounted unconditionally
RoutesIndexMountsAlwaysUsers(opts) ==
    {"healthRoutes", "userRoutes"}
    \cup (IF opts.authentication THEN {"authRoutes"} ELSE {})

\* the router.use lines of src/routes/index.ts
RoutesIndexMounts(opts) ==
    {"healthRoutes"}
    \cup (IF opts.authentication THEN {"authRoutes"} ELSE {})
    \cup (IF opts.database # "none" THEN {"userRoutes"} ELSE {})

ExpressGenerateRoutes(opts) ==
    writeFileWith("source", <<"src", "routes", "healthRoutes.ts">>, {Pkg("express")},
                  {Rel(<<"..", "controllers", "healthController">>)}, {}, <<>>)
    \o When(opts.authentication,
            writeFileWith("source", <<"src", "routes", "authRoutes.ts">>, {Pkg("express")},
                          {Rel(<<"..", "controllers", "authController">>),
                           Rel(<<"..", "middlewares", "auth">>)}, {}, <<>>))
    \o When(opts.database # "none",
            writeFileWith("source", <<"src", "routes", "userRoutes.ts">>, {Pkg("express")},
                          {Rel(<<"..", "controllers", "userController">>)}
                          \cup (IF opts.authentication
                                THEN {Rel(<<"..", "middlewares", "auth">>)} ELSE {}),
                          {}, <<>>))
    \o writeFileWith("source", <<"src", "routes", "index.ts">>, {Pkg("express")},
                     RoutesIndexImports(opts), RoutesIndexMounts(opts), <<>>)

ExpressGenerateApp(opts) ==
    writeFileWith("source", <<"src", "app.ts">>,
        {Pkg("express"), Pkg("cors"), Pkg("helmet")}
        \cup (IF opts.swagger THEN {Pkg("swagger-ui-express")} ELSE {}),
        {Rel(<<".", "routes", "index">>), Rel(<<".", "middlewares", "errorHandler">>)}
        \cup (IF opts.swagger THEN {Rel(<<".", "config", "swagger">>)} ELSE {}),
        {}, <<>>)

ExpressGenerateServer(opts) ==
    writeFileWith("source", <<"src", "server.ts">>, {},
        {Rel(<<".", "app">>), Rel(<<".", "config", "index">>)}
        \cup (IF opts.database # "none" THEN {Rel(<<".", "config", "database">>)} ELSE {}),
        {}, <<>>)

ExpressGenerateSourceFiles(config, opts) ==
    ExpressGenerateTypes(opts.authentication)
    \o ExpressGenerateMiddlewares(opts.authentication)
    \o When(opts.database = "mongodb", ExpressGenerateMongooseModels(opts.authentication))
    \o When(opts.swagger, ExpressGenerateSwaggerConfig)
    \o ExpressGenerateControllers(opts)
    \o ExpressGenerateRoutes(opts)
    \o When(opts.githubActions, generateExpressWorkflow("source", config, opts.database))
    \o ExpressGenerateApp(opts)
    \o ExpressGenerateServer(opts)

ExpressGenerateReadme(config) ==
    LET opts == ExpressOpts(config)
    IN  writeFileLines("docs", <<"README.md">>, <<config.packageManager>>,
                       projectStructureSectionsExpress(
                           [database |-> opts.database # "none",
                            auth |-> opts.authentication]))

\* the steps of generateExpressProject, in the order of its awaits
generateExpressProject(config) ==
    LET opts == ExpressOpts(config)
    IN << ExpressCreateDirectoryStructure(opts),
          ExpressGeneratePackageJson(config.name, opts),
          ExpressGenerateConfigFiles(opts),
          ExpressGenerateDatabaseConfig(opts),
          ExpressGenerateSourceFiles(config, opts),
          ExpressGenerateReadme(config) >>

(***************************************************************************)
(* generators/index.ts: generateProject                                    *)
(***************************************************************************)
\* the generators the switch invokes for a framework value, in order of invocation;
\* the switch has no default branch
generateProject(framework) ==
    IF framework = "react" THEN <<"generateReactProject">>
    ELSE IF framework = "express" THEN <<"generateExpressProject">>
    ELSE IF framework = "astro" THEN <<"generateAstroProject">>
    ELSE IF framework = "next" THEN <<"generateNextProject">>
    ELSE <<>>

\* the steps of one generator
GeneratorSteps(generator, config) ==
    IF generator = "generateReactProject" THEN generateReactProject(config)
    ELSE IF generator = "generateExpressProject" THEN generateExpressProject(config)
    ELSE IF generator = "generateAstroProject" THEN generateAstroProject(config)
    ELSE generateNextProject(config)

(***************************************************************************)
(* utils/fileSystem.ts: directoryExists, isDirectoryEmpty                  *)
(***************************************************************************)
\* what is at config.directory when the create action looks at it
TargetStates == {"absent", "emptyDir", "nonEmptyDir"}

\* fs.stat throws for a missing path (and may throw for an existing one)
directoryExists(state, statThrows) ==
    IF state = "absent" \/ statThrows THEN FALSE
    ELSE state \in {"emptyDir", "nonEmptyDir"}

\* fs.readdir may throw (e.g. no read permission): the catch answers true
isDirectoryEmpty(state, readdirThrows) ==
    IF readdirThrows THEN TRUE ELSE state # "nonEmptyDir"

(***************************************************************************)
(* utils/shell.ts                                                          *)
(***************************************************************************)
\* the commands of initGit, in the order of its awaits
GitCommands == << <<"git", "init">>, <<"git", "add", ".">>,
                  <<"git", "commit", "-m", "Initial commit">> >>

\* the command of installDependencies
InstallCommand(packageManager) == <<packageManager, "install">>

(***************************************************************************)
(* State.                                                                  *)
(***************************************************************************)
VARIABLES
    nomeProgetto,\* the positional argument of `create`, <<>> when not given
    pc,          \* where the create action (index.ts) is
    local,       \* the locals of promptProjectConfig
    config,      \* the ProjectConfig promptProjectConfig returned, or Undefined
    target,      \* what was at config.directory before generation, "" until looked at
    disk,        \* the filesystem operations that completed, in order
    invoked,     \* the generators generateProject invoked, in order
    step,        \* number of completed steps of the running generator
    procs,       \* the external processes started, in order
    inProgress,  \* the stages (generate, install, git) in progress
    results,     \* the values installDependencies and initGit returned
    out,         \* what the logger printed (errors, warnings, final messages)
    exitCode     \* the status passed to process.exit, -1 before

\* utils/npm.ts
VARIABLES
    versionCache, \* the module-level Map from package names to version strings
    requests,     \* the https requests getLatestVersion issued
    resolved,     \* the values the promises of getLatestVersion resolved with
    batch         \* the call of getLatestVersions or getVersionsWithStatus

createVars == <<nomeProgetto, pc, local, config, target, disk, invoked, step, procs,
                inProgress, results, out, exitCode>>

npmVars == <<versionCache, requests, resolved, batch>>

vars == <<nomeProgetto, pc, local, config, target, disk, invoked, step, procs, inProgress,
          results, out, exitCode, versionCache, requests, resolved, batch>>

\* no batch call was made yet
NoBatch == [fn |-> "none", stage |-> "idle", packages |-> <<>>, available |-> "unknown",
            ids |-> {}, pending |-> {}, results |-> <<>>, out |-> Undefined]

\* utils/npm.ts after module initialisation: an empty cache, nothing in flight
NpmInit ==
    /\ versionCache = <<>>
    /\ requests = {}
    /\ resolved = <<>>
    /\ batch = NoBatch

NoLocals == [name |-> <<>>, framework |-> "", directory |-> "",
             reactOptions |-> Undefined, nextOptions |-> Undefined,
             astroOptions |-> Undefined, expressOptions |-> Undefined,
             packageManager |-> "", initGit |-> FALSE, installDeps |-> FALSE]

Init ==
    /\ nomeProgetto \in Names
    /\ pc = "promptName"
    /\ local = NoLocals
    /\ config = Undefined
    /\ target = ""
    /\ disk = <<>>
    /\ invoked = <<>>
    /\ step = 0
    /\ procs = <<>>
    /\ inProgress = {}
    /\ results = <<>>
    /\ out = <<>>
    /\ exitCode = -1
    /\ NpmInit

Log(kind, lines) == [kind |-> kind, text |-> lines]

\* process.exit(code)
Exit(code) ==
    /\ pc' = "exited"
    /\ exitCode' = code

(***************************************************************************)
(* prompts/index.ts: promptProjectConfig.  Each field of options is read   *)
(* once; its value is drawn where it is read.                              *)
(***************************************************************************)
\* promptExpressOptions with every question asked whatever the database
promptExpressOptionsAlwaysAsks(database, authentication, docker, swagger, githubActions) ==
    [database |-> database, authentication |-> authentication, swagger |-> swagger,
     docker |-> docker, githubActions |-> githubActions]

\* the record promptExpressOptions returns for the user's answers; the
\* authentication and docker questions are asked only with a database
promptExpressOptions(database, authentication, docker, swagger, githubActions) ==
    [database |-> database,
     authentication |-> IF database # "none" THEN authentication ELSE FALSE,
     swagger |-> swagger,
     docker |-> IF database # "none" THEN docker ELSE FALSE,
     githubActions |-> githubActions]

\* PromptName without the call of validateProjectName on the argument
PromptNameUnchecked ==
    /\ pc = "promptName"
    /\ IF nomeProgetto # <<>>
       THEN local' = [local EXCEPT !.name = nomeProgetto]
       ELSE \E answer \in Names :
               /\ validateProjectName(answer) = "true"
               /\ local' = [local EXCEPT !.name = answer]
    /\ pc' = "promptFramework"
    /\ UNCHANGED <<nomeProgetto, config, target, disk, invoked, step, procs, inProgress,
                   results, out, exitCode>>
    /\ UNCHANGED npmVars

\* lines 134-148: the name, from the argument (validated once) or from the
\* input prompt (which returns only a value its validate function accepts)
PromptName ==
    /\ pc = "promptName"
    /\  IF nomeProgetto # <<>>
        THEN LET validation == validateProjectName(nomeProgetto)
             IN IF validation # "true"
                THEN /\ out' = Append(out, Log("error", <<validation>>))
                     /\ Exit(1)
                     /\ UNCHANGED local
                ELSE /\ local' = [local EXCEPT !.name = nomeProgetto]
                     /\ pc' = "promptFramework"
                     /\ UNCHANGED <<out, exitCode>>
        ELSE \E answer \in Names :
                /\ validateProjectName(answer) = "true"
                /\ local' = [local EXCEPT !.name = answer]
                /\ pc' = "promptFramework"
                /\ UNCHANGED <<out, exitCode>>
    /\ UNCHANGED <<nomeProgetto, config, target, disk, invoked, step, procs, inProgress, results>>
    /\ UNCHANGED npmVars

\* lines 150-162: options.framework || select(...), then the directory
PromptFramework ==
    /\ pc = "promptFramework"
    /\ \E flag \in FrameworkFlags, answer \in Framework, dirFlag \in DirectoryFlags :
        local' = [local EXCEPT
                    !.framework = IF flag # "" THEN flag ELSE answer,
                    !.directory = IF dirFlag # "" THEN dirFlag
                                  ELSE "./" \o ToStr(local.name)]
    /\ pc' = "promptFeatures"
    /\ UNCHANGED <<nomeProgetto, config, target, disk, invoked, step, procs, inProgress, results,
                   out, exitCode>>
    /\ UNCHANGED npmVars

\* lines 164-178: the option record of the chosen framework
PromptFeatures ==
    /\ pc = "promptFeatures"
    /\ IF local.framework = "react"
       THEN \E o \in ReactOptions : local' = [local EXCEPT !.reactOptions = o]
       ELSE IF local.framework = "next"
       THEN \E o \in NextOptions : local' = [local EXCEPT !.nextOptions = o]
       ELSE IF local.framework = "astro"
       THEN \E o \in AstroOptions : local' = [local EXCEPT !.astroOptions = o]
       ELSE IF local.framework = "express"
       THEN \E db \in Database, auth \in BOOLEAN, docker \in BOOLEAN,
               swagger \in BOOLEAN, gha \in BOOLEAN :
               local' = [local EXCEPT !.expressOptions =
                            promptExpressOptions(db, auth, docker, swagger, gha)]
       ELSE UNCHANGED local
    /\ pc' = "promptPackageManager"
    /\ UNCHANGED <<nomeProgetto, config, target, disk, invoked, step, procs, inProgress, results,
                   out, exitCode>>
    /\ UNCHANGED npmVars

\* lines 180-187
PromptPackageManager ==
    /\ pc = "promptPackageManager"
    /\ \E answer \in PackageManager : local' = [local EXCEPT !.packageManager = answer]
    /\ pc' = "promptGit"
    /\ UNCHANGED <<nomeProgetto, config, target, disk, invoked, step, procs, inProgress, results,
                   out, exitCode>>
    /\ UNCHANGED npmVars

\* lines 189-194: options.git ?? confirm(...)
PromptGit ==
    /\ pc = "promptGit"
    /\ \E flag \in Tri, answer \in BOOLEAN :
        local' = [local EXCEPT !.initGit = Nullish(flag, answer)]
    /\ pc' = "promptInstall"
    /\ UNCHANGED <<nomeProgetto, config, target, disk, invoked, step, procs, inProgress, results,
                   out, exitCode>>
    /\ UNCHANGED npmVars

\* lines 196-214: options.install ?? confirm(...), then the return
PromptInstall ==
    /\ pc = "promptInstall"
    /\ \E flag \in Tri, answer \in BOOLEAN :
        /\ local' = [local EXCEPT !.installDeps = Nullish(flag, answer)]
        /\ config' = local'
    /\ pc' = "checkDirectory"
    /\ UNCHANGED <<nomeProgetto, target, disk, invoked, step, procs, inProgress, results,
                   out, exitCode>>
    /\ UNCHANGED npmVars

\* a prompt is asked at this point for some command line
PromptAsked ==
    \/ pc = "promptName" /\ nomeProgetto = <<>>
    \/ pc \in {"promptFramework", "promptPackageManager", "promptGit", "promptInstall"}
    \/ pc = "promptFeatures" /\ local.framework \in Framework

\* PromptAborted with the cancellation treated as an error
PromptAbortedAsError ==
    /\ PromptAsked
    /\ out' = Append(out, Log("warn", <<"Operazione annullata">>))
    /\ Exit(1)
    /\ UNCHANGED <<nomeProgetto, local, config, target, disk, invoked, step, procs,
                   inProgress, results>>
    /\ UNCHANGED npmVars

\* the user aborts a prompt: it throws ExitPromptError, which the catch of the
\* create action (index.ts lines 77-82) turns into process.exit(0)
PromptAborted ==
    /\ PromptAsked
    /\ out' = Append(out, Log("warn", <<"Operazione annullata">>))
    /\ Exit(0)
    /\ UNCHANGED <<nomeProgetto, local, config, target, disk, invoked, step, procs, inProgress,
                   results>>
    /\ UNCHANGED npmVars

(***************************************************************************)
(* index.ts: the create action, after promptProjectConfig returned.        *)
(***************************************************************************)
\* lines 36-42: the directory check
CheckDirectory ==
    /\ pc = "checkDirectory"
    /\ \E state \in TargetStates, statThrows \in BOOLEAN, readdirThrows \in BOOLEAN :
        /\ target' = state
        /\ IF directoryExists(state, statThrows) /\ ~isDirectoryEmpty(state, readdirThrows)
           THEN /\ out' = Append(out, Log("error",
                        <<"La directory \"" \o config.directory
                          \o "\" esiste gia e non e vuota">>))
                /\ Exit(1)
           ELSE /\ pc' = "generate"
                /\ UNCHANGED <<out, exitCode>>
    /\ UNCHANGED <<nomeProgetto, local, config, disk, invoked, step, procs, inProgress, results>>
    /\ UNCHANGED npmVars

\* line 51: the call of generateProject and its switch
GenerateProject ==
    /\ pc = "generate"
    /\ invoked' = generateProject(config.framework)
    /\ step' = 0
    /\ inProgress' = inProgress \cup {"generate"}
    /\ pc' = "generating"
    /\ UNCHANGED <<nomeProgetto, local, config, target, disk, procs, results, out, exitCode>>
    /\ UNCHANGED npmVars

\* the steps of the generator that is running
Steps == GeneratorSteps(invoked[1], config)

\* one step of the generator (one logger.step and the awaits below it) completes
GeneratorStep ==
    /\ pc = "generating"
    /\ invoked # <<>>
    /\ step < Len(Steps)
    /\ disk' = disk \o Steps[step + 1]
    /\ step' = step + 1
    /\ UNCHANGED <<nomeProgetto, pc, local, config, target, invoked, procs, inProgress, results,
                   out, exitCode>>
    /\ UNCHANGED npmVars

\* GeneratorFails with the error swallowed: the generator goes on with the next step
GeneratorFailsSwallowed ==
    /\ pc = "generating"
    /\ invoked # <<>>
    /\ step < Len(Steps)
    /\ \E done \in 0..(Len(Steps[step + 1]) - 1) :
        disk' = disk \o SubSeq(Steps[step + 1], 1, done)
    /\ step' = step + 1
    /\ UNCHANGED <<nomeProgetto, pc, local, config, target, invoked, procs, inProgress,
                   results, out, exitCode>>
    /\ UNCHANGED npmVars

\* a mkdir or a write of the current step throws: the operations before it are
\* done, the error leaves the generator, generateProject and, through the
\* rethrow of line 83, the create action
GeneratorFails ==
    /\ pc = "generating"
    /\ invoked # <<>>
    /\ step < Len(Steps)
    /\ \E done \in 0..(Len(Steps[step + 1]) - 1) :
        disk' = disk \o SubSeq(Steps[step + 1], 1, done)
    /\ inProgress' = inProgress \ {"generate"}
    /\ pc' = "rejected"
    /\ UNCHANGED <<nomeProgetto, local, config, target, invoked, step, procs, results, out, exitCode>>
    /\ UNCHANGED npmVars

\* generateProject returns: the generator finished, or no case matched
GenerateReturns ==
    /\ pc = "generating"
    /\ IF invoked = <<>> THEN TRUE ELSE step = Len(Steps)
    /\ inProgress' = inProgress \ {"generate"}
    /\ pc' = "install"
    /\ UNCHANGED <<nomeProgetto, local, config, target, disk, invoked, step, procs, results,
                   out, exitCode>>
    /\ UNCHANGED npmVars

\* shell.ts 10-12, 30: a child process started by execa and not yet exited
Started(stage, cmd) == [stage |-> stage, cmd |-> cmd, status |-> "running"]

\* shell.ts 10-19, 30-37: the running process of a stage exits, with status 0
\* (the awaited execa promise resolves) or not (it rejects)
Exited(stage, ok) ==
    LET i == CHOOSE k \in 1..Len(procs) :
                 /\ procs[k].stage = stage
                 /\ \A j \in (k + 1)..Len(procs) : procs[j].stage # stage
    IN  [procs EXCEPT ![i].status = IF ok THEN "ok" ELSE "failed"]

\* InstallDependencies without the await: the create action goes on at once
InstallDependenciesNotAwaited ==
    /\ pc = "install"
    /\ IF config.installDeps
       THEN /\ procs' = Append(procs, Started("install", InstallCommand(config.packageManager)))
            /\ inProgress' = inProgress \cup {"install"}
       ELSE UNCHANGED <<procs, inProgress>>
    /\ pc' = "git"
    /\ UNCHANGED <<nomeProgetto, local, config, target, disk, invoked, step, results,
                   out, exitCode>>
    /\ UNCHANGED npmVars

\* lines 54-57 and shell.ts 23-30: installDependencies starts the package manager
InstallDependencies ==
    /\ pc = "install"
    /\ IF config.installDeps
       THEN /\ procs' = Append(procs, Started("install", InstallCommand(config.packageManager)))
            /\ inProgress' = inProgress \cup {"install"}
            /\ pc' = "awaitInstall"
       ELSE /\ pc' = "git"
            /\ UNCHANGED <<procs, inProgress>>
    /\ UNCHANGED <<nomeProgetto, local, config, target, disk, invoked, step, results, out, exitCode>>
    /\ UNCHANGED npmVars

\* InstallExits without the catch: a failed install rejects the create action
InstallExitsThrows ==
    /\ "install" \in inProgress
    /\ \E ok \in BOOLEAN :
        /\ procs' = Exited("install", ok)
        /\ IF ok
           THEN /\ results' = Append(results, [fn |-> "installDependencies", value |-> ok])
                /\ pc' = IF pc = "awaitInstall" THEN "git" ELSE pc
           ELSE /\ pc' = "rejected"
                /\ UNCHANGED results
    /\ inProgress' = inProgress \ {"install"}
    /\ UNCHANGED <<nomeProgetto, local, config, target, disk, invoked, step,
                   out, exitCode>>
    /\ UNCHANGED npmVars

\* shell.ts 30-37: the package manager exits; installDependencies returns true,
\* or false from its catch, and the awaiting create action resumes
InstallExits ==
    /\ "install" \in inProgress
    /\ \E ok \in BOOLEAN :
        /\ procs' = Exited("install", ok)
        /\ results' = Append(results, [fn |-> "installDependencies", value |-> ok])
    /\ inProgress' = inProgress \ {"install"}
    /\ pc' = IF pc = "awaitInstall" THEN "git" ELSE pc
    /\ UNCHANGED <<nomeProgetto, local, config, target, disk, invoked, step, out, exitCode>>
    /\ UNCHANGED npmVars

\* lines 60-63 and shell.ts 6-10: initGit starts `git init`
InitGit ==
    /\ pc = "git"
    /\ IF config.initGit
       THEN /\ procs' = Append(procs, Started("git", GitCommands[1]))
            /\ inProgress' = inProgress \cup {"git"}
            /\ pc' = "awaitGit"
       ELSE /\ pc' = "final"
            /\ UNCHANGED <<procs, inProgress>>
    /\ UNCHANGED <<nomeProgetto, local, config, target, disk, invoked, step, results, out, exitCode>>
    /\ UNCHANGED npmVars

\* the git commands started so far
GitStarted == Cardinality({i \in 1..Len(procs) : procs[i].stage = "git"})

\* GitCommandExits without the shared try block: a failed command does not
\* stop the ones after it
GitCommandExitsGoesOn ==
    /\ "git" \in inProgress
    /\ \E ok \in BOOLEAN :
        IF GitStarted < Len(GitCommands)
        THEN /\ procs' = Append(Exited("git", ok),
                                Started("git", GitCommands[GitStarted + 1]))
             /\ UNCHANGED <<inProgress, results, pc>>
        ELSE /\ procs' = Exited("git", ok)
             /\ results' = Append(results, [fn |-> "initGit", value |-> ok])
             /\ inProgress' = inProgress \ {"git"}
             /\ pc' = IF pc = "awaitGit" THEN "final" ELSE pc
    /\ UNCHANGED <<nomeProgetto, local, config, target, disk, invoked, step, out, exitCode>>
    /\ UNCHANGED npmVars

\* shell.ts 10-19: a git command exits; on success the next one starts, after
\* the last one initGit returns true; on failure the catch returns false
GitCommandExits ==
    /\ "git" \in inProgress
    /\ \E ok \in BOOLEAN :
        IF ok /\ GitStarted < Len(GitCommands)
        THEN /\ procs' = Append(Exited("git", ok),
                                Started("git", GitCommands[GitStarted + 1]))
             /\ UNCHANGED <<inProgress, results, pc>>
        ELSE /\ procs' = Exited("git", ok)
             /\ results' = Append(results, [fn |-> "initGit", value |-> ok])
             /\ inProgress' = inProgress \ {"git"}
             /\ pc' = IF pc = "awaitGit" THEN "final" ELSE pc
    /\ UNCHANGED <<nomeProgetto, local, config, target, disk, invoked, step, out, exitCode>>
    /\ UNCHANGED npmVars

\* Instructions with the install line printed unconditionally
InstructionsAlwaysInstall(c) ==
    <<"cd " \o c.directory, c.packageManager \o " install", c.packageManager \o " run dev">>

\* lines 69-73: the text of the next-steps box, one string per line
Instructions(c) ==
    <<"cd " \o c.directory>>
    \o When(~c.installDeps, <<c.packageManager \o " install">>)
    \o <<c.packageManager \o " run dev">>

\* lines 66-75: the success message and the next-steps box
Final ==
    /\ pc = "final"
    /\ out' = out \o << Log("celebrate", <<"Progetto creato con successo!">>),
                        Log("box", Instructions(config)) >>
    /\ pc' = "done"
    /\ UNCHANGED <<nomeProgetto, local, config, target, disk, invoked, step, procs, inProgress,
                   results, exitCode>>
    /\ UNCHANGED npmVars

Next ==
    \/ PromptName
    \/ PromptFramework
    \/ PromptFeatures
    \/ PromptPackageManager
    \/ PromptGit
    \/ PromptInstall
    \/ PromptAborted
    \/ CheckDirectory
    \/ GenerateProject
    \/ GeneratorStep
    \/ GeneratorFails
    \/ GenerateReturns
    \/ InstallDependencies
    \/ InstallExits
    \/ InitGit
    \/ GitCommandExits
    \/ Final

Spec == Init /\ [][Next]_vars

(***************************************************************************)
(* The generators on every ProjectConfig: every flag combination of every  *)
(* framework, and the absent option record.                                *)
(***************************************************************************)
ValidNames == {n \in Names : validateProjectName(n) = "true"}

OptionRecords(framework) ==
    IF framework = "react" THEN ReactOptions
    ELSE IF framework = "next" THEN NextOptions
    ELSE IF framework = "astro" THEN AstroOptions
    ELSE ExpressOptions

\* a ProjectConfig for a framework with the given option record (or Undefined)
ConfigOf(name, framework, options, packageManager) ==
    [NoLocals EXCEPT
        !.name = name,
        !.framework = framework,
        !.directory = "./" \o ToStr(name),
        !.packageManager = packageManager,
        !.reactOptions = IF framework = "react" THEN options ELSE Undefined,
        !.nextOptions = IF framework = "next" THEN options ELSE Undefined,
        !.astroOptions = IF framework = "astro" THEN options ELSE Undefined,
        !.expressOptions = IF framework = "express" THEN options ELSE Undefined]

GenConfigs ==
    {ConfigOf(n, f, o, pm) : n \in ValidNames, pm \in PackageManager,
        <<f, o>> \in UNION {{<<f, o>> : o \in OptionRecords(f) \cup {Undefined}} : f \in Framework}}

InitGen ==
    /\ nomeProgetto = <<>>
    /\ pc = "generate"
    /\ config \in GenConfigs
    /\ local = config
    /\ target = "absent"
    /\ disk = <<>>
    /\ invoked = <<>>
    /\ step = 0
    /\ procs = <<>>
    /\ inProgress = {}
    /\ results = <<>>
    /\ out = <<>>
    /\ exitCode = -1
    /\ NpmInit

NextGen ==
    \/ GenerateProject
    \/ GeneratorStep
    \/ GeneratorFails
    \/ GenerateReturns

SpecGen == InitGen /\ [][NextGen]_vars

(***************************************************************************)
(* utils/npm.ts: the version resolver.  No generator imports this module. *)
(***************************************************************************)
MaxLookups == 2

REQUEST_TIMEOUT == 3000

fallbackVersions ==
    ("react" :> "^19.1.0")
    @@ ("react-dom" :> "^19.1.0")
    @@ ("react-router-dom" :> "^7.6.0")
    @@ ("zustand" :> "^5.0.4")
    @@ ("@vitejs/plugin-react" :> "^4.4.1")
    @@ ("vite" :> "^6.3.5")
    @@ ("next" :> "^15.3.2")
    @@ ("eslint-config-next" :> "^15.3.2")
    @@ ("astro" :> "^5.7.13")
    @@ ("@astrojs/check" :> "^0.9.4")
    @@ ("@astrojs/tailwind" :> "^6.0.2")
    @@ ("express" :> "^5.1.0")
    @@ ("cors" :> "^2.8.5")
    @@ ("helmet" :> "^8.1.0")
    @@ ("dotenv" :> "^16.5.0")
    @@ ("zod" :> "^3.24.4")
    @@ ("mongoose" :> "^8.14.1")
    @@ ("@prisma/client" :> "^6.6.0")
    @@ ("prisma" :> "^6.6.0")
    @@ ("bcrypt" :> "^5.1.1")
    @@ ("jsonwebtoken" :> "^9.0.2")
    @@ ("swagger-ui-express" :> "^5.0.1")
    @@ ("swagger-jsdoc" :> "^6.2.8")
    @@ ("typescript" :> "^5.8.3")
    @@ ("@types/node" :> "^22.15.21")
    @@ ("@types/react" :> "^19.1.2")
    @@ ("@types/react-dom" :> "^19.1.2")
    @@ ("@types/express" :> "^5.0.2")
    @@ ("@types/cors" :> "^2.8.18")
    @@ ("@types/bcrypt" :> "^5.0.2")
    @@ ("@types/jsonwebtoken" :> "^9.0.9")
    @@ ("@types/swagger-ui-express" :> "^4.1.8")
    @@ ("@types/swagger-jsdoc" :> "^6.0.4")
    @@ ("eslint" :> "^9.27.0")
    @@ ("@eslint/js" :> "^9.25.0")
    @@ ("eslint-plugin-react-hooks" :> "^5.2.0")
    @@ ("eslint-plugin-react-refresh" :> "^0.4.19")
    @@ ("@typescript-eslint/eslint-plugin" :> "^8.32.1")
    @@ ("@typescript-eslint/parser" :> "^8.32.1")
    @@ ("globals" :> "^16.0.0")
    @@ ("typescript-eslint" :> "^8.30.1")
    @@ ("tailwindcss" :> "^4.1.6")
    @@ ("@tailwindcss/vite" :> "^4.1.6")
    @@ ("@tailwindcss/postcss" :> "^4.1.6")
    @@ ("tsx" :> "^4.19.4")

getFallbackVersion(packageName) ==
    IF packageName \in DOMAIN fallbackVersions THEN fallbackVersions[packageName]
    ELSE "latest"

\* the names looked up: one of the fallback table, one outside it
NpmPackages == {"react", "left-pad"}

\* the latest tags the registry answers with
Tags == {"1.0.0", "2.0.0"}

\* the response bodies: text that is not JSON, JSON without 'dist-tags',
\* 'dist-tags' without 'latest', and the registry document with a latest tag
Bodies ==
    {[raw |-> "<html>"],
     [parsed |-> [error |-> "Not found"]],
     [parsed |-> ("dist-tags" :> [beta |-> "3.0.0-beta"])]}
    \cup {[parsed |-> ("dist-tags" :> [latest |-> v])] : v \in Tags}

\* lines 95-96: JSON.parse(data) and the template literal; a property of
\* undefined cannot be read, and undefined is interpolated as 'undefined'
ParsedVersion(data) ==
    IF "parsed" \notin DOMAIN data THEN [threw |-> TRUE]
    ELSE IF "dist-tags" \notin DOMAIN data.parsed THEN [threw |-> TRUE]
    ELSE LET tags == data.parsed["dist-tags"]
         IN [threw |-> FALSE,
             version |-> "^" \o (IF "latest" \in DOMAIN tags THEN tags.latest
                                                              ELSE "undefined")]

\* the calls of getLatestVersion so far
Calls == Cardinality(requests)
         + Cardinality({i \in 1..Len(resolved) : resolved[i].via = "cache"})

\* the lookups a getVersionsWithStatus call will make once its pre-check is over
Reserved == IF batch.stage = "precheck" THEN Len(batch.packages) ELSE 0

\* resolve that settles the promise again on every call
ResolveEveryTime(r, value, via, body) ==
    resolved' = Append(resolved, [id |-> r.id, pkg |-> r.pkg, value |-> value,
                                  via |-> via, body |-> body, called |-> r.called])

\* resolve(value) of the promise of request r: only the first call settles it
Resolve(r, value, via, body) ==
    resolved' = IF r.state = "open"
                THEN Append(resolved, [id |-> r.id, pkg |-> r.pkg, value |-> value,
                                       via |-> via, body |-> body, called |-> r.called])
                ELSE resolved

\* Settle whose callback drops the value instead of storing it in the map
SettleDropsValue(r, value, via, body) ==
    /\ Resolve(r, value, via, body)
    /\ batch' = IF r.state = "open" /\ r.id \in batch.pending
                THEN [batch EXCEPT !.pending = batch.pending \ {r.id}]
                ELSE batch

\* the promise of request r settles and the async callback of
\* getLatestVersions that awaited it stores the value (line 134)
Settle(r, value, via, body) ==
    /\ Resolve(r, value, via, body)
    /\ batch' = IF r.state = "open" /\ r.id \in batch.pending
                THEN [batch EXCEPT !.results = (r.pkg :> value) @@ batch.results,
                                   !.pending = batch.pending \ {r.id}]
                ELSE batch

Moved(r, state) == requests' = (requests \ {r}) \cup {[r EXCEPT !.state = state]}

\* lines 77-86: the cache is consulted, then the request is issued
GetLatestVersion ==
    /\ pc = "npm"
    /\ Calls + Reserved < MaxLookups
    /\ \E packageName \in NpmPackages :
        IF packageName \in DOMAIN versionCache
        THEN /\ resolved' = Append(resolved,
                    [id |-> Calls + 1, pkg |-> packageName,
                     value |-> versionCache[packageName], via |-> "cache",
                     body |-> Undefined, called |-> Len(resolved)])
             /\ UNCHANGED requests
        ELSE /\ requests' = requests \cup
                    {[id |-> Calls + 1, pkg |-> packageName, state |-> "open",
                      called |-> Len(resolved)]}
             /\ UNCHANGED resolved
    /\ UNCHANGED <<versionCache, batch, createVars>>

\* ResponseEnds without the write to versionCache
ResponseEndsNoStore ==
    /\ pc = "npm"
    /\ \E r \in requests, data \in Bodies :
        /\ r.state = "open"
        /\ LET parsed == ParsedVersion(data)
           IN IF parsed.threw
              THEN Settle(r, getFallbackVersion(r.pkg), "end", data)
              ELSE Settle(r, parsed.version, "end", data)
        /\ Moved(r, "ended")
    /\ UNCHANGED <<versionCache, createVars>>

\* lines 93-103: the response ended; the body is parsed, the version is
\* cached and returned, or the catch returns the fallback
ResponseEnds ==
    /\ pc = "npm"
    /\ \E r \in requests, data \in Bodies :
        /\ r.state = "open"
        /\ LET parsed == ParsedVersion(data)
           IN IF parsed.threw
              THEN /\ Settle(r, getFallbackVersion(r.pkg), "end", data)
                   /\ UNCHANGED versionCache
              ELSE /\ versionCache' = (r.pkg :> parsed.version) @@ versionCache
                   /\ Settle(r, parsed.version, "end", data)
        /\ Moved(r, "ended")
    /\ UNCHANGED createVars

\* RequestTimesOut that destroys the request without resolving the promise
RequestTimesOutNoResolve ==
    /\ pc = "npm"
    /\ \E r \in requests :
        /\ r.state = "open"
        /\ Moved(r, "destroyed")
    /\ UNCHANGED <<versionCache, resolved, batch, createVars>>

\* lines 107-110: no response within REQUEST_TIMEOUT; the request is destroyed
RequestTimesOut ==
    /\ pc = "npm"
    /\ \E r \in requests :
        /\ r.state = "open"
        /\ Settle(r, getFallbackVersion(r.pkg), "timeout", Undefined)
        /\ Moved(r, "destroyed")
    /\ UNCHANGED <<versionCache, createVars>>

\* lines 113-115: the request emits 'error', on a network failure or after
\* the destroy of the timeout
RequestErrors ==
    /\ pc = "npm"
    /\ \E r \in requests :
        /\ r.state \in {"open", "destroyed"}
        /\ Settle(r, getFallbackVersion(r.pkg), "error", Undefined)
        /\ Moved(r, "errored")
    /\ UNCHANGED <<versionCache, createVars>>

\* the lists of names a batch call is made with
PackageLists == UNION {[1..n -> NpmPackages] : n \in 1..MaxLookups}

\* lines 132-136: packages.map calls getLatestVersion for every name before
\* anything else runs; a cached name is resolved at once and stored in the
\* map, the others are requested
StartLookups(fn, packages, available) ==
    LET hit(i) == packages[i] \in DOMAIN versionCache
        all == [i \in 1..Len(packages) |->
                  [id |-> Calls + i, pkg |-> packages[i],
                   value |-> IF hit(i) THEN versionCache[packages[i]] ELSE "",
                   via |-> IF hit(i) THEN "cache" ELSE "miss",
                   body |-> Undefined, called |-> Len(resolved)]]
        cached(e) == e.via = "cache"
        misses == {i \in 1..Len(packages) : ~hit(i)}
    IN /\ resolved' = resolved \o SelectSeq(all, cached)
       /\ requests' = requests \cup
                {[id |-> Calls + i, pkg |-> packages[i], state |-> "open",
                  called |-> Len(resolved)] : i \in misses}
       /\ batch' = [batch EXCEPT
                !.fn = fn, !.stage = "lookups", !.packages = packages,
                !.available = available,
                !.ids = {Calls + i : i \in 1..Len(packages)},
                !.pending = {Calls + i : i \in misses},
                !.results = [q \in {packages[i] : i \in (1..Len(packages)) \ misses} |->
                                versionCache[q]]]

\* lines 129-136: getLatestVersions(packages)
GetLatestVersions ==
    /\ pc = "npm"
    /\ batch.stage = "idle"
    /\ \E packages \in PackageLists :
        /\ Calls + Len(packages) <= MaxLookups
        /\ StartLookups("getLatestVersions", packages, "unknown")
    /\ UNCHANGED <<versionCache, createVars>>

\* lines 132-138 and 174-175: Promise.all resolved, the map is returned
GetLatestVersionsReturns ==
    /\ pc = "npm"
    /\ batch.stage = "lookups"
    /\ batch.pending = {}
    /\ batch' = [batch EXCEPT
            !.stage = "done",
            !.out = [versions |-> batch.results,
                     fromNetwork |-> IF batch.fn = "getVersionsWithStatus"
                                     THEN "true" ELSE "none"]]
    /\ UNCHANGED <<versionCache, requests, resolved, createVars>>

\* lines 160-163 and 144: getVersionsWithStatus(packages) awaits
\* isNetworkAvailable, which requests the registry root
GetVersionsWithStatus ==
    /\ pc = "npm"
    /\ batch.stage = "idle"
    /\ \E packages \in PackageLists :
        /\ Calls + Len(packages) <= MaxLookups
        /\ batch' = [batch EXCEPT !.fn = "getVersionsWithStatus", !.stage = "precheck",
                                  !.packages = packages]
    /\ UNCHANGED <<versionCache, requests, resolved, createVars>>

\* lines 165-172: the network is not available, the fallbacks are returned
ReturnFallbacks ==
    /\ batch' = [batch EXCEPT
            !.stage = "done", !.available = "false",
            !.out = [versions |-> [q \in Range(batch.packages) |-> getFallbackVersion(q)],
                     fromNetwork |-> "false"]]
    /\ UNCHANGED <<requests, resolved>>

\* the status codes the registry root answers with
StatusCodes == {200, 503}

\* lines 144-146: the registry root answered; then lines 165-175
NetworkCheckResponds ==
    /\ pc = "npm"
    /\ batch.stage = "precheck"
    /\ \E statusCode \in StatusCodes :
        IF statusCode = 200
        THEN StartLookups("getVersionsWithStatus", batch.packages, "true")
        ELSE ReturnFallbacks
    /\ UNCHANGED <<versionCache, createVars>>

\* NetworkCheckTimesOut that goes on to the per-package lookups
NetworkCheckTimesOutThenLooksUp ==
    /\ pc = "npm"
    /\ batch.stage = "precheck"
    /\ StartLookups("getVersionsWithStatus", batch.packages, "false")
    /\ UNCHANGED <<versionCache, createVars>>

\* lines 148-151: the request to the registry root timed out
NetworkCheckTimesOut ==
    /\ pc = "npm"
    /\ batch.stage = "precheck"
    /\ ReturnFallbacks
    /\ UNCHANGED <<versionCache, createVars>>

\* lines 153-155: the request to the registry root failed
NetworkCheckErrors ==
    /\ pc = "npm"
    /\ batch.stage = "precheck"
    /\ ReturnFallbacks
    /\ UNCHANGED <<versionCache, createVars>>

InitNpm ==
    /\ nomeProgetto = <<>>
    /\ pc = "npm"
    /\ local = NoLocals
    /\ config = Undefined
    /\ target = ""
    /\ disk = <<>>
    /\ invoked = <<>>
    /\ step = 0
    /\ procs = <<>>
    /\ inProgress = {}
    /\ results = <<>>
    /\ out = <<>>
    /\ exitCode = -1
    /\ NpmInit

NextNpm ==
    \/ GetLatestVersion
    \/ ResponseEnds
    \/ RequestTimesOut
    \/ RequestErrors
    \/ GetLatestVersions
    \/ GetLatestVersionsReturns
    \/ GetVersionsWithStatus
    \/ NetworkCheckResponds
    \/ NetworkCheckTimesOut
    \/ NetworkCheckErrors

SpecNpm == InitNpm /\ [][NextNpm]_vars

\* the timer of an open request fires when nothing else settles it, and the
\* continuation of a settled Promise.all runs
FairSpecNpm ==
    /\ SpecNpm
    /\ WF_vars(RequestTimesOut)
    /\ WF_vars(GetLatestVersionsReturns)

(***************************************************************************)
(* validateProjectName on every short string over the characters the      *)
(* name grammar distinguishes.                                             *)
(***************************************************************************)
MaxInputLen == 4

ValidateChars == {"a", "1", "-", ".", "~", "A", " ", "_", "!", "*", "@", "/"}

ValidateNames == SeqsUpTo(ValidateChars, MaxInputLen)

InitValidate ==
    /\ nomeProgetto \in ValidateNames
    /\ pc = "validate"
    /\ local = NoLocals
    /\ config = Undefined
    /\ target = ""
    /\ disk = <<>>
    /\ invoked = <<>>
    /\ step = 0
    /\ procs = <<>>
    /\ inProgress = {}
    /\ results = <<>>
    /\ out = <<>>
    /\ exitCode = -1
    /\ NpmInit

\* one call of validateProjectName; its result is kept in out
Validate ==
    /\ pc = "validate"
    /\ out' = Append(out, Log("validation", <<validateProjectName(nomeProgetto)>>))
    /\ pc' = "validated"
    /\ UNCHANGED <<nomeProgetto, local, config, target, disk, invoked, step, procs,
                   inProgress, results, exitCode>>
    /\ UNCHANGED npmVars

NextValidate == Validate

SpecValidate == InitValidate /\ [][NextValidate]_vars

(***************************************************************************)
(* Properties.                                                             *)
(***************************************************************************)
InstallStarted == \E i \in 1..Len(procs) : procs[i].stage = "install"
GitHasStarted == \E i \in 1..Len(procs) : procs[i].stage = "git"
HasResult(fn) == \E i \in 1..Len(results) : results[i].fn = fn
HasFailed(fn) == \E i \in 1..Len(results) : results[i].fn = fn /\ ~results[i].value
Printed(kind) == \E i \in 1..Len(out) : out[i].kind = kind
WrittenFiles == {disk[i].path : i \in {j \in 1..Len(disk) : disk[j].kind = "write"}}

RECURSIVE Flatten(_)
Flatten(seqs) == IF seqs = <<>> THEN <<>> ELSE Head(seqs) \o Flatten(Tail(seqs))

\* every filesystem operation of the invoked generator, in order
AllOps == IF invoked = <<>> THEN <<>> ELSE Flatten(Steps)

IsPrefix(s, t) == Len(s) <= Len(t) /\ s = SubSeq(t, 1, Len(s))

\* the create action is past the await of generateProject
AfterGenerate == pc \in {"install", "awaitInstall", "git", "awaitGit", "final", "done"}

\* C1: whenever the target path is an existing directory with at least one
\* entry, the process has exited with status 1 and generateProject was not
\* invoked, nothing was written and no process was started.
C1_NonEmptyTargetIsFatal ==
    target = "nonEmptyDir" =>
        /\ pc = "exited"
        /\ exitCode = 1
        /\ invoked = <<>>
        /\ disk = <<>>
        /\ procs = <<>>

\* C2: a positional name that fails validateProjectName ends the process with
\* status 1 with nothing created, no process started and no ProjectConfig
\* returned; the name of the config generateProject receives passed
\* validateProjectName.
C2_NameValidatedBeforeMutation ==
    /\ (nomeProgetto # <<>> /\ validateProjectName(nomeProgetto) # "true"
            /\ pc # "promptName") =>
        /\ pc = "exited"
        /\ exitCode = 1
        /\ disk = <<>>
        /\ procs = <<>>
        /\ invoked = <<>>
        /\ config = Undefined
    /\ (pc \in {"generate", "generating", "rejected"} \/ AfterGenerate) =>
        validateProjectName(config.name) = "true"

\* an invalid positional name was rejected
C2_Witness ==
    /\ nomeProgetto # <<>>
    /\ validateProjectName(nomeProgetto) # "true"
    /\ pc = "exited"
    /\ exitCode = 1

\* C3: at most one stage is in progress; the install process is started only
\* after generateProject completed; git is started only after generation and,
\* when enabled, after installDependencies returned (true or false).
C3_StagesSequential ==
    /\ Cardinality(inProgress) <= 1
    /\ InstallStarted =>
        /\ "generate" \notin inProgress
        /\ AllOps = disk
    /\ GitHasStarted =>
        /\ "generate" \notin inProgress
        /\ "install" \notin inProgress
        /\ AllOps = disk
        /\ config.installDeps => HasResult("installDependencies")

\* git was started after an install that failed
C3_Witness ==
    /\ GitHasStarted
    /\ HasFailed("installDependencies")
    /\ disk # <<>>

\* C4: a process of a stage is started only if its flag is set; when the
\* action completes each enabled stage was started, and the next-steps box
\* has the line "<packageManager> install" exactly when installDeps is false.
C4_StagesFollowFlags ==
    /\ InstallStarted => config.installDeps
    /\ GitHasStarted => config.initGit
    /\ pc = "done" =>
        /\ config.installDeps => InstallStarted
        /\ config.initGit => GitHasStarted
        /\ Printed("box")
        /\ \A i \in 1..Len(out) :
            out[i].kind = "box" =>
                (((config.packageManager \o " install") \in Range(out[i].text))
                    <=> ~config.installDeps)

\* both stages skipped: no process, and the box names the install command
C4_Witness ==
    /\ pc = "done"
    /\ ~config.installDeps
    /\ ~config.initGit
    /\ procs = <<>>
    /\ \E i \in 1..Len(out) :
        out[i].kind = "box" /\ (config.packageManager \o " install") \in Range(out[i].text)

\* C5: once an external process was started the action neither rejects nor
\* exits; after installDependencies returned the action is at initGit or
\* beyond, after initGit returned it is at the final messages; when it is
\* done the success message and the box were printed.
C5_ToolFailuresNotPropagated ==
    /\ procs # <<>> => (pc \notin {"rejected", "exited"} /\ exitCode = -1)
    /\ HasResult("installDependencies") => pc \in {"git", "awaitGit", "final", "done"}
    /\ (HasResult("installDependencies") /\ config.initGit /\ pc # "git") => GitHasStarted
    /\ HasResult("initGit") => pc \in {"final", "done"}
    /\ pc = "done" => (Printed("celebrate") /\ Printed("box"))

\* both tools failed and the final messages were printed
C5_Witness ==
    /\ pc = "done"
    /\ HasFailed("installDependencies")
    /\ HasFailed("initGit")
    /\ Printed("celebrate")
    /\ Printed("box")

\* C6: the operations on disk are always a prefix of the generator's
\* operations (nothing skipped, repeated or undone); after a failure the
\* prefix is proper, no process was started and no success message printed;
\* a process is started or the success message printed only when every
\* operation completed.
C6_GeneratorStopsAtFailure ==
    /\ IsPrefix(disk, AllOps)
    /\ pc = "rejected" =>
        /\ Len(disk) < Len(AllOps)
        /\ procs = <<>>
        /\ results = <<>>
        /\ ~Printed("celebrate")
        /\ ~Printed("box")
    /\ (procs # <<>> \/ Printed("celebrate")) => disk = AllOps

\* a write failed after package.json was written: the partial tree stays
C6_Witness ==
    /\ pc = "rejected"
    /\ <<"package.json">> \in WrittenFiles
    /\ <<"README.md">> \notin WrittenFiles

Cancelled == \E i \in 1..Len(out) : out[i] = Log("warn", <<"Operazione annullata">>)

\* C7: after a prompt was aborted the process has exited with status 0 and
\* nothing was written, no generator invoked and no process started; status
\* 0 is used for nothing else.
C7_CancelExitsZero ==
    /\ Cancelled =>
        /\ pc = "exited"
        /\ exitCode = 0
        /\ disk = <<>>
        /\ invoked = <<>>
        /\ procs = <<>>
    /\ exitCode = 0 => Cancelled

\* the feature prompt of a chosen framework was aborted
C7_Witness ==
    /\ Cancelled
    /\ exitCode = 0
    /\ local.framework = "express"
    /\ config = Undefined

\* the generator the claim expects for a framework
MatchingGenerator ==
    [react |-> "generateReactProject", astro |-> "generateAstroProject",
     next |-> "generateNextProject", express |-> "generateExpressProject"]

\* C8: once generateProject was called, exactly one generator was invoked and
\* it is the one of config.framework.
C8_TotalDispatch ==
    (pc = "generating" \/ AfterGenerate) =>
        /\ Len(invoked) = 1
        /\ config.framework \in DOMAIN MatchingGenerator
        /\ invoked[1] = MatchingGenerator[config.framework]

\* the phase of the generator contract a step belongs to; the Express step
\* 'configurazione database' emits the config module and the connection file
PhaseRank(label) ==
    CASE label = "structure" -> 1
      [] label = "manifest" -> 2
      [] label = "config" -> 3
      [] label = "database" -> 3
      [] label = "source" -> 4
      [] label = "docs" -> 5

IsWrite(i) == disk[i].kind = "write"

\* C9: the operations on disk are in phase order (structure, manifest,
\* configuration, source, documentation); every file written under src/ is
\* preceded by the write of package.json; no file is written after README.md.
C9_PhasesInOrder ==
    /\ \A i, j \in 1..Len(disk) :
        i < j => PhaseRank(disk[i].step) <= PhaseRank(disk[j].step)
    /\ \A j \in 1..Len(disk) :
        (IsWrite(j) /\ disk[j].path[1] = "src") =>
            \E i \in 1..(j - 1) : IsWrite(i) /\ disk[i].path = <<"package.json">>
    /\ \A i \in 1..Len(disk) :
        (IsWrite(i) /\ disk[i].path = <<"README.md">>) =>
            \A j \in (i + 1)..Len(disk) : ~IsWrite(j)

\* a generator with a CI workflow ran to the end: the workflow, files under
\* src/ and the README are on disk
C9_Witness ==
    /\ pc = "install"
    /\ <<"README.md">> \in WrittenFiles
    /\ <<".github", "workflows", "ci.yml">> \in WrittenFiles
    /\ \E p \in WrittenFiles : p[1] = "src"

\* the packages a written file refers to: its imports and, for a JSON
\* configuration, the plugins it names and the configuration it extends
References(op) ==
    {imp.pkg : imp \in op.imports}
    \cup (IF "plugins" \in DOMAIN op.json THEN {r.pkg : r \in op.json.plugins} ELSE {})
    \cup (IF "extends" \in DOMAIN op.json THEN {r.pkg : r \in op.json["extends"]} ELSE {})

\* the keys of dependencies and devDependencies of the package.json on disk
ManifestPackages ==
    UNION {DOMAIN disk[i].json.dependencies \cup DOMAIN disk[i].json.devDependencies :
            i \in {j \in 1..Len(disk) : IsWrite(j) /\ disk[j].path = <<"package.json">>}}

\* C10: every package a written file refers to is a key of dependencies or
\* devDependencies of the package.json written in the same run.
C10_ImportsInManifest ==
    \A i \in 1..Len(disk) : IsWrite(i) => References(disk[i]) \subseteq ManifestPackages

\* runs in which flag-dependent packages are imported by written files
C10_Witness ==
    /\ pc = "install"
    /\ \E i \in 1..Len(disk) :
        IsWrite(i) /\ References(disk[i]) \cap {"zustand", "bcrypt", "@astrojs/tailwind"} # {}

\* the generator that was invoked has returned
GeneratorDone == pc = "install" /\ invoked # <<>>

\* TypeScript's resolution of a relative specifier against the directory of
\* the importing file; './x.js' names the source file './x.ts'
RECURSIVE Normalize(_, _)
Normalize(dir, segments) ==
    IF segments = <<>> THEN dir
    ELSE IF Head(segments) = "." THEN Normalize(dir, Tail(segments))
    ELSE IF Head(segments) = ".." THEN Normalize(Dirname(dir), Tail(segments))
    ELSE Normalize(Append(dir, Head(segments)), Tail(segments))

ResolveSibling(from, specifier) ==
    LET m == Normalize(Dirname(from), specifier)
    IN Dirname(m) \o <<m[Len(m)] \o ".ts">>

RoutesIndexWrites == {i \in 1..Len(disk) : IsWrite(i) /\ disk[i].path = <<"src", "routes", "index.ts">>}

\* C12: the routes index imports and mounts authRoutes exactly when
\* src/routes/authRoutes.ts was written, and userRoutes exactly when
\* src/routes/userRoutes.ts was written; healthRoutes is always written,
\* imported and mounted.
C12_RoutesIndexMatchesFiles ==
    \A i \in RoutesIndexWrites :
        \A r \in {"healthRoutes", "authRoutes", "userRoutes"} :
            LET written == <<"src", "routes", r \o ".ts">> \in WrittenFiles
            IN /\ (Rel(<<".", r>>) \in disk[i].siblings) <=> written
               /\ (r \in disk[i].mounts) <=> written
               /\ r = "healthRoutes" => written

\* an Express run with a database and authentication has written the index
C12_Witness ==
    /\ GeneratorDone
    /\ \E i \in RoutesIndexWrites : disk[i].mounts = {"healthRoutes", "authRoutes", "userRoutes"}

\* C13: every ExpressOptions value promptExpressOptions returned has
\* authentication and docker only with a database.
C13_AuthAndDockerNeedDatabase ==
    \A c \in {local, config} :
        (c # Undefined /\ c.expressOptions # Undefined) =>
            /\ c.expressOptions.authentication => c.expressOptions.database # "none"
            /\ c.expressOptions.docker => c.expressOptions.database # "none"

\* the prompts returned an Express record without a database: the
\* authentication answer drawn for it was not asked for and is false
C13_Witness ==
    /\ config # Undefined
    /\ config.expressOptions # Undefined
    /\ config.expressOptions.database = "none"
    /\ ~config.expressOptions.authentication

\* the option records of a ProjectConfig that are not undefined
Populated(c) ==
    {f \in {"reactOptions", "nextOptions", "astroOptions", "expressOptions"} : c[f] # Undefined}

\* C14: the ProjectConfig promptProjectConfig returned has exactly one option
\* record populated, the one its framework field selects.
C14_ExactlyOneOptionRecord ==
    config # Undefined => Populated(config) = {config.framework \o "Options"}

\* what a write puts into the file
Content(op) == [imports |-> op.imports, json |-> op.json, siblings |-> op.siblings,
                mounts |-> op.mounts, commands |-> op.commands, lines |-> op.lines]

\* the files a sequence of operations writes, without README.md
FilesButReadme(ops) ==
    LET keep(op) == op.kind = "write" /\ op.path # <<"README.md">>
        kept == SelectSeq(ops, keep)
    IN [i \in 1..Len(kept) |-> [path |-> kept[i].path, content |-> Content(kept[i])]]

PathsOf(ops) == {ops[i].path : i \in {j \in 1..Len(ops) : ops[j].kind = "write"}}

\* C15: the generator run on the same ProjectConfig with any other package
\* manager writes the same paths, and the same content to every file other
\* than README.md.
C15_PackageManagerOnlyInReadme ==
    GeneratorDone =>
        \A pm \in PackageManager :
            LET ops == Flatten(GeneratorSteps(invoked[1], [config EXCEPT !.packageManager = pm]))
            IN /\ PathsOf(ops) = WrittenFiles
               /\ FilesButReadme(ops) = FilesButReadme(disk)

\* the fixed base files of a framework
BaseFiles(framework) ==
    {<<"package.json">>, <<"tsconfig.json">>, <<".gitignore">>, <<"README.md">>}
    \cup (CASE framework = "react" -> {<<"src", "main.tsx">>, <<"src", "App.tsx">>}
            [] framework = "next" -> {<<"src", "app", "layout.tsx">>, <<"src", "app", "page.tsx">>}
            [] framework = "astro" -> {<<"src", "pages", "index.astro">>}
            [] framework = "express" -> {<<"src", "app.ts">>, <<"src", "server.ts">>})

\* C16: a generator that returned has written every base file of its
\* framework, whatever the flags and also without an option record.
C16_BaseFilesWritten ==
    GeneratorDone => BaseFiles(config.framework) \subseteq WrittenFiles

\* a generator ran to the end without an option record
C16_Witness ==
    /\ GeneratorDone
    /\ Populated(config) = {}
    /\ BaseFiles(config.framework) \subseteq WrittenFiles

\* JSON.parse of a quoted string
RECURSIVE JsonUnescape(_)
JsonUnescape(s) ==
    IF s = <<>> THEN <<>>
    ELSE IF Head(s) = "\\" /\ Len(s) > 1 THEN <<s[2]>> \o JsonUnescape(Tail(Tail(s)))
    ELSE <<Head(s)>> \o JsonUnescape(Tail(s))

JsonUnquote(s) == JsonUnescape(SubSeq(s, 2, Len(s) - 1))

\* JSON.parse of the text JSON.stringify produced
JSONParse(text) ==
    IF "name" \in DOMAIN text THEN [text EXCEPT !.name = JsonUnquote(text.name)] ELSE text

ManifestWrites == {i \in 1..Len(disk) : IsWrite(i) /\ disk[i].path = <<"package.json">>}

\* C17: the package.json on disk, parsed back, has the name of the
\* configuration, version 0.1.0 and the scripts dev and build.
C17_ManifestRoundTrip ==
    \A i \in ManifestWrites :
        LET manifest == JSONParse(disk[i].json)
        IN /\ manifest.name = config.name
           /\ manifest.version = "0.1.0"
           /\ {"dev", "build"} \subseteq DOMAIN manifest.scripts

\* a package.json with a non-empty name is on disk
C17_Witness ==
    /\ ManifestWrites # {}
    /\ config.name # <<>>
    /\ \A i \in ManifestWrites : Len(disk[i].json.name) = Len(config.name) + 2

\* the versions a package.json on disk pins
PinnedVersions ==
    UNION {{<<k, disk[i].json.dependencies[k]>> : k \in DOMAIN disk[i].json.dependencies}
           \cup {<<k, disk[i].json.devDependencies[k]>> : k \in DOMAIN disk[i].json.devDependencies}
           : i \in ManifestWrites}

\* C18: every version string in the package.json on disk is a value that
\* getLatestVersion resolved with for that package name.
C18_VersionsFromResolver ==
    \A d \in PinnedVersions :
        \E j \in 1..Len(resolved) : resolved[j].pkg = d[1] /\ resolved[j].value = d[2]

\* the body carries a latest tag
HasLatest(body) ==
    /\ "parsed" \in DOMAIN body
    /\ "dist-tags" \in DOMAIN body.parsed
    /\ "latest" \in DOMAIN body.parsed["dist-tags"]

\* the lookup resolved on a failure path: timeout, error or malformed body
Failure(i) ==
    \/ resolved[i].via \in {"timeout", "error"}
    \/ resolved[i].via = "end" /\ ~HasLatest(resolved[i].body)

\* C19: a lookup that timed out, errored or got a malformed body resolved
\* with the fallback-table entry of the exact name, or with 'latest' when
\* the table has none.
C19_FailuresFallBack ==
    \A i \in 1..Len(resolved) :
        Failure(i) =>
            resolved[i].value = (IF resolved[i].pkg \in DOMAIN fallbackVersions
                                 THEN fallbackVersions[resolved[i].pkg] ELSE "latest")

\* the lookup obtained the registry's latest tag
Success(i) == resolved[i].via = "end" /\ HasLatest(resolved[i].body)

TagOf(i) == resolved[i].body.parsed["dist-tags"].latest

\* the lookup wrote the cache
Stored(i) == resolved[i].via = "end" /\ "parsed" \in DOMAIN resolved[i].body
             /\ "dist-tags" \in DOMAIN resolved[i].body.parsed

\* the lookups for pkg among the first n resolved ones that wrote the cache
StoredBefore(pkg, n) == {i \in 1..n : Stored(i) /\ resolved[i].pkg = pkg}

Last(S) == CHOOSE i \in S : \A k \in S : k <= i

C21_EveryLookupResolves ==
    /\ \A id \in 1..MaxLookups :
        (\E r \in requests : r.id = id) ~> (\E i \in 1..Len(resolved) : resolved[i].id = id)
    /\ (batch.fn = "getLatestVersions") ~> (batch.stage = "done")

\* a getLatestVersions call returned although one of its lookups timed out
C21_Witness ==
    /\ batch.fn = "getLatestVersions"
    /\ batch.stage = "done"
    /\ \E i \in 1..Len(resolved) : resolved[i].via = "timeout"

\* the resolved lookups the batch call made
BatchLookups == {i \in 1..Len(resolved) : resolved[i].id \in batch.ids}

\* the batch call returned the map its lookups filled
BatchReturnedMap == batch.stage = "done" /\ batch.available # "false"

\* the returned map has exactly one entry for each distinct requested name
OneEntryPerName ==
    BatchReturnedMap =>
        /\ DOMAIN batch.out.versions = Range(batch.packages)
        /\ \A q \in Range(batch.packages) :
            \E i \in BatchLookups :
                resolved[i].pkg = q /\ resolved[i].value = batch.out.versions[q]

C23_PrecheckShortCircuits ==
    batch.fn = "getVersionsWithStatus" =>
        /\ batch.available = "false" =>
            /\ batch.ids = {}
            /\ batch.stage = "done"
            /\ batch.out.fromNetwork = "false"
            /\ DOMAIN batch.out.versions = Range(batch.packages)
            /\ \A q \in Range(batch.packages) :
                batch.out.versions[q] = (IF q \in DOMAIN fallbackVersions
                                         THEN fallbackVersions[q] ELSE "latest")
        /\ batch.ids # {} => batch.available = "true"

\* the pre-check failed for a list with a name outside the fallback table
C23_Witness ==
    /\ batch.fn = "getVersionsWithStatus"
    /\ batch.available = "false"
    /\ batch.stage = "done"
    /\ "left-pad" \in DOMAIN batch.out.versions

\* C25: a step only appends to the resolved values, at most one per
\* request, so the first event of a request fixes what its call returned;
\* the cache changes only in the step in which a response end resolves the
\* call, and it then holds the value that call returned.
C25_FirstEventFixesValue ==
    [][/\ Len(resolved') >= Len(resolved)
       /\ SubSeq(resolved', 1, Len(resolved)) = resolved
       /\ \A i, j \in 1..Len(resolved') :
            resolved'[i].id = resolved'[j].id => i = j
       /\ versionCache' # versionCache =>
            /\ Len(resolved') = Len(resolved) + 1
            /\ LET e == resolved'[Len(resolved')]
               IN /\ e.via = "end"
                  /\ versionCache' = (e.pkg :> e.value) @@ versionCache]_vars

\* a request that timed out emitted 'error' afterwards
C25_Witness ==
    \E r \in requests :
        /\ r.state = "errored"
        /\ \E i \in 1..Len(resolved) : resolved[i].id = r.id /\ resolved[i].via = "timeout"

\* C26: every cache entry is '^' followed by the latest tag of a registry
\* response for that name, and every call for a name made after only failed
\* lookups of it issued a request.
C26_CacheHoldsRegistryValues ==
    /\ \A q \in DOMAIN versionCache :
        \E i \in 1..Len(resolved) :
            Success(i) /\ resolved[i].pkg = q /\ versionCache[q] = "^" \o TagOf(i)
    /\ \A j \in 1..Len(resolved) :
        (\A i \in 1..resolved[j].called :
            resolved[i].pkg = resolved[j].pkg => Failure(i)) =>
                resolved[j].via # "cache"

\* the characters the claim allows in a name
AllowedChars == Lower \cup Digit \cup {"-", ".", "~"}

\* the name without its '@scope/' prefix, when it has one
RECURSIVE AfterSlash(_)
AfterSlash(s) ==
    IF s = <<>> THEN <<>>
    ELSE IF Head(s) = "/" THEN Tail(s)
    ELSE AfterSlash(Tail(s))

Unscoped(s) ==
    IF s # <<>> /\ Head(s) = "@" /\ "/" \in Range(s) THEN AfterSlash(s) ELSE s

\* C24: a name validateProjectName accepted is not empty, its characters
\* after the optional scope prefix are all lowercase letters, digits,
\* hyphens, dots or tildes, and it has no uppercase letter, space,
\* underscore, '!' or '*' anywhere.
C24_OnlyGrammarNamesAccepted ==
    (pc = "validated" /\ out[1].text[1] = "true") =>
        /\ nomeProgetto # <<>>
        /\ Range(Unscoped(nomeProgetto)) \subseteq AllowedChars
        /\ Range(nomeProgetto) \cap {"A", " ", "_", "!", "*"} = {}

\* the git processes in the order they were started
GitProcs == SelectSeq(procs, LAMBDA q : q.stage = "git")

\* the values initGit has returned
GitReturns == {results[i].value : i \in {k \in 1..Len(results) : results[k].fn = "initGit"}}

\* C27: initGit runs `git init`, `git add .` and `git commit` in that order,
\* each one started only after the one before it exited with success; after a
\* failed command no further command is started and initGit returns false
\* while the create action goes on; initGit returns true only if all three
\* commands succeeded
C27_GitCommandsInOrder ==
    /\ Len(GitProcs) <= Len(GitCommands)
    /\ \A k \in 1..Len(GitProcs) :
         /\ GitProcs[k].cmd = GitCommands[k]
         /\ k < Len(GitProcs) => GitProcs[k].status = "ok"
         /\ GitProcs[k].status = "running" => "git" \in inProgress
    /\ (\E k \in 1..Len(GitProcs) : GitProcs[k].status = "failed")
         => /\ GitReturns = {FALSE}
            /\ pc \in {"final", "done"}
            /\ exitCode # 1
    /\ TRUE \in GitReturns
         => /\ Len(GitProcs) = Len(GitCommands)
            /\ \A k \in 1..Len(GitProcs) : GitProcs[k].status = "ok"
    /\ GitReturns # {} => "git" \notin inProgress

\* `git init` succeeded, `git add .` failed, `git commit` never ran and
\* initGit returned false
C27_Witness ==
    /\ Len(GitProcs) = 2
    /\ GitProcs[1].status = "ok"
    /\ GitProcs[2].status = "failed"
    /\ GitReturns = {FALSE}

\* the directories made so far
CreatedDirectories == {disk[i].path : i \in {j \in 1..Len(disk) : disk[j].kind = "mkdir"}}

\* the lines of the versions written so far of the file at a path
LinesWritten(p) ==
    {disk[i].lines : i \in {j \in 1..Len(disk) : disk[j].kind = "write" /\ disk[j].path = p}}

\* C28: the project-structure section of the Express README lists 'models/'
\* exactly when src/models was created in the run, and 'schema.prisma' under
\* 'prisma/' exactly when prisma/schema.prisma was written.
C28_ReadmeStructureMatchesDisk ==
    (GeneratorDone /\ config.framework = "express") =>
        \A l \in LinesWritten(<<"README.md">>) :
            /\ "models/" \in Range(l) <=> <<"src", "models">> \in CreatedDirectories
            /\ "schema.prisma" \in Range(l)
                 <=> <<"prisma", "schema.prisma">> \in WrittenFiles

\* the position of the first occurrence of an entry in a text, 0 if absent
IndexOf(l, x) ==
    IF x \in Range(l) THEN CHOOSE i \in 1..Len(l) : l[i] = x /\ \A j \in 1..(i - 1) : l[j] # x
    ELSE 0

\* the entries all occur, in the order given
InOrder(l, names) ==
    /\ \A k \in 1..Len(names) : IndexOf(l, names[k]) > 0
    /\ \A k \in 1..(Len(names) - 1) : IndexOf(l, names[k]) < IndexOf(l, names[k + 1])

\* C29: in the CI workflow of an Express project the steps checkout, setup
\* Node, install, lint and build come in that order, and with postgresql the
\* 'Generate Prisma Client' step comes before 'Build'.
C29_PrismaClientBeforeBuild ==
    config.framework = "express" =>
        \A l \in LinesWritten(WorkflowDir \o <<"ci.yml">>) :
            /\ InOrder(l, <<"Checkout repository", "Setup Node.js",
                            "Install dependencies", "Lint", "Build">>)
            /\ ExpressOpts(config).database = "postgresql"
                 => InOrder(l, <<"Generate Prisma Client", "Build">>)

\* a .gitignore text makes git ignore the file .env
IgnoresEnv(l) == ".env" \in Range(l) /\ "!.env" \notin Range(l)

\* `git add .` has been started
GitAddStarted == \E i \in 1..Len(procs) : procs[i].cmd = GitCommands[2]

\* C30: every .gitignore written in a run that wrote .env has the entry
\* '.env'; the Express generator writes both for every flag combination, and
\* both are on disk, the generation over, before `git add .` is started.
C30_EnvIgnoredBeforeGitAdd ==
    /\ <<".env">> \in WrittenFiles
         => \A l \in LinesWritten(<<".gitignore">>) : IgnoresEnv(l)
    /\ (GitHasStarted /\ config.framework = "express")
         => /\ <<".env">> \in WrittenFiles
            /\ LinesWritten(<<".gitignore">>) # {}
    /\ GitHasStarted => pc \notin {"generate", "generating"}

\* `git add .` runs in an Express project whose .env holds JWT_SECRET and
\* whose .gitignore lists .env
C30_Witness ==
    /\ GitAddStarted
    /\ \E l \in LinesWritten(<<".env">>) : "JWT_SECRET" \in Range(l)
    /\ \E l \in LinesWritten(<<".gitignore">>) : IgnoresEnv(l)


====
